---- MODULE Spec2Model ----
(***************************************************************************)
(* NL-to-SQL agent workflow of restaurant-analytics-agent/backend:         *)
(* the LangGraph pipeline intent_and_schema -> generate_sql ->            *)
(* validate_sql -> validate_results (agent_framework.py), the SQL safety   *)
(* validator (utils/validators.py, agents/sql_validator.py) and the part   *)
(* of the /api/query handler (main.py) that turns the final AgentState     *)
(* into a response and re-generates SQL after an execution failure.        *)
(*                                                                         *)
(* SQL texts are TLA+ strings; the validator is computed on their          *)
(* characters exactly as the Python code does (upper/lower, substring      *)
(* tests, \b word boundaries, \s runs).                                    *)
(***************************************************************************)
EXTENDS Integers, Sequences, FiniteSets, TLC

\* Python's None where a string is expected
None == "None"

\* ------------------------------------------------------------------------
\* Text primitives (Python str / re operations used by the validator)
\* ------------------------------------------------------------------------

CharAt(s, i) == SubSeq(s, i, i)

LowerAlphabet == "abcdefghijklmnopqrstuvwxyz"

UpperAlphabet == "ABCDEFGHIJKLMNOPQRSTUVWXYZ"

Digits == "0123456789"

LettersIn(alphabet) == {CharAt(alphabet, i) : i \in 1..Len(alphabet)}

AlphabetIndex(alphabet, c) == CHOOSE i \in 1..Len(alphabet) : CharAt(alphabet, i) = c

\* str.upper() on one character
UpperChar(c) ==
    IF c \in LettersIn(LowerAlphabet)
    THEN CharAt(UpperAlphabet, AlphabetIndex(LowerAlphabet, c))
    ELSE c

\* str.lower() on one character
LowerChar(c) ==
    IF c \in LettersIn(UpperAlphabet)
    THEN CharAt(LowerAlphabet, AlphabetIndex(UpperAlphabet, c))
    ELSE c

RECURSIVE StrUpper(_)
StrUpper(s) ==
    IF Len(s) = 0 THEN ""
    ELSE UpperChar(CharAt(s, 1)) \o StrUpper(SubSeq(s, 2, Len(s)))

RECURSIVE StrLower(_)
StrLower(s) ==
    IF Len(s) = 0 THEN ""
    ELSE LowerChar(CharAt(s, 1)) \o StrLower(SubSeq(s, 2, Len(s)))

\* `t in s`
Contains(s, t) ==
    \E i \in 1..(Len(s) - Len(t) + 1) : SubSeq(s, i, i + Len(t) - 1) = t

\* characters matched by \s
IsSpace(c) == c \in {" ", "\n", "\t"}

\* characters matched by \w
IsWordChar(c) ==
    \/ c \in LettersIn(LowerAlphabet)
    \/ c \in LettersIn(UpperAlphabet)
    \/ c \in LettersIn(Digits)
    \/ c = "_"

\* a \b boundary lies between positions i and i+1 of s (0 <= i <= Len(s))
WordBoundary(s, i) ==
    LET before == i >= 1 /\ IsWordChar(CharAt(s, i))
        after  == i < Len(s) /\ IsWordChar(CharAt(s, i + 1))
    IN  before # after

\* re.search(rf"\b{keyword}\b", s)
SearchWholeWord(s, keyword) ==
    \E i \in 1..(Len(s) - Len(keyword) + 1) :
        /\ SubSeq(s, i, i + Len(keyword) - 1) = keyword
        /\ WordBoundary(s, i - 1)
        /\ WordBoundary(s, i + Len(keyword) - 1)

\* str.strip(): first and last non-space positions
RECURSIVE StripLeft(_)
StripLeft(s) ==
    IF Len(s) > 0 /\ IsSpace(CharAt(s, 1)) THEN StripLeft(SubSeq(s, 2, Len(s))) ELSE s

RECURSIVE StripRight(_)
StripRight(s) ==
    IF Len(s) > 0 /\ IsSpace(CharAt(s, Len(s))) THEN StripRight(SubSeq(s, 1, Len(s) - 1)) ELSE s

StrStrip(s) == StripRight(StripLeft(s))

StartsWith(s, p) == Len(s) >= Len(p) /\ SubSeq(s, 1, Len(p)) = p

\* index of the first non-space character at or after i
RECURSIVE SkipSpaces(_, _)
SkipSpaces(s, i) ==
    IF i <= Len(s) /\ IsSpace(CharAt(s, i)) THEN SkipSpaces(s, i + 1) ELSE i

\* A pattern  lit1 \s{m2,} lit2 \s{m3,} lit3 ...  is a sequence of pieces
\* [lit, minSp]: at least minSp white-space characters, then the literal.
\* No literal starts with white space, so the greedy \s run is the only match.
RECURSIVE MatchPieces(_, _, _)
MatchPieces(s, i, pieces) ==
    IF pieces = <<>> THEN TRUE
    ELSE LET p == Head(pieces)
             j == SkipSpaces(s, i)
         IN  /\ j - i >= p.minSp
             /\ j + Len(p.lit) - 1 <= Len(s)
             /\ SubSeq(s, j, j + Len(p.lit) - 1) = p.lit
             /\ MatchPieces(s, j + Len(p.lit), Tail(pieces))

\* re.search(pattern, s) for such a pattern
SearchPieces(s, pieces) == \E i \in 1..Len(s) : MatchPieces(s, i, pieces)

\* the first literal of a pattern
Lit(l) == [lit |-> l, minSp |-> 0]

\* \s* followed by a literal
Sp0(l) == [lit |-> l, minSp |-> 0]

\* \s+ followed by a literal
Sp1(l) == [lit |-> l, minSp |-> 1]

\* index of the first occurrence of t in s, 0 if there is none (str.find + 1)
FindFirst(s, t) ==
    IF Contains(s, t)
    THEN CHOOSE i \in 1..(Len(s) - Len(t) + 1) :
            /\ SubSeq(s, i, i + Len(t) - 1) = t
            /\ \A j \in 1..(i - 1) : SubSeq(s, j, j + Len(t) - 1) # t
    ELSE 0

\* s.split(t)[0]
SplitFirst(s, t) ==
    IF Contains(s, t) THEN SubSeq(s, 1, FindFirst(s, t) - 1) ELSE s

\* s.split(t)[1], for s that contains t
SplitSecond(s, t) ==
    LET rest == SubSeq(s, FindFirst(s, t) + Len(t), Len(s))
    IN  SplitFirst(rest, t)

\* s.replace(t, "")
RECURSIVE RemoveAll(_, _)
RemoveAll(s, t) ==
    IF Len(s) = 0 THEN ""
    ELSE IF StartsWith(s, t) THEN RemoveAll(SubSeq(s, Len(t) + 1, Len(s)), t)
    ELSE CharAt(s, 1) \o RemoveAll(SubSeq(s, 2, Len(s)), t)

\* any(p in s for p in patterns)
ContainsAny(s, patterns) == \E k \in 1..Len(patterns) : Contains(s, patterns[k])


\* ------------------------------------------------------------------------
\* utils/validators.py : SQLValidator
\* ------------------------------------------------------------------------

\* the denylist with one keyword forgotten
DANGEROUS_KEYWORDS_without_insert ==
    << "DROP", "DELETE", "UPDATE", "ALTER", "CREATE", "TRUNCATE",
       "GRANT", "REVOKE", "EXECUTE", "EXEC", "MERGE", "REPLACE" >>

DANGEROUS_KEYWORDS ==
    << "DROP", "DELETE", "UPDATE", "INSERT", "ALTER", "CREATE", "TRUNCATE",
       "GRANT", "REVOKE", "EXECUTE", "EXEC", "MERGE", "REPLACE" >>

CENTS_TABLES == << "unified_orders", "unified_order_items", "unified_payments" >>

CENTS_COLUMNS ==
    << "subtotal_cents", "tax_cents", "tip_cents", "service_fee_cents",
       "delivery_fee_cents", "discount_cents", "total_cents", "commission_cents",
       "merchant_payout_cents", "unit_price_cents", "total_price_cents",
       "amount_cents", "processing_fee_cents", "price_cents" >>

DOLLAR_VIEWS ==
    << "mv_daily_sales_summary", "mv_product_sales_summary", "mv_hourly_sales_pattern",
       "mv_payment_methods_by_source", "mv_order_type_performance",
       "mv_category_sales_summary", "mv_location_performance",
       "mv_product_location_sales" >>

DangerousMessage(keyword) ==
    "Dangerous operation '" \o keyword \o "' not allowed. Only SELECT queries permitted."

StartMessage == "Query must start with SELECT or WITH"

CentsMessage ==
    "Using *_cents columns without dividing by 100.0. " \o
    "All cent values must be converted to dollars (column_cents / 100.0)."

VoidedMessage ==
    "Query uses unified_orders but doesn't filter voided orders. " \o
    "Add 'WHERE voided = FALSE' to exclude voided orders."

VoidedTrueWarning == "Query explicitly selects voided orders. Ensure this is intentional."

ViewDivisionWarning ==
    "Query divides values in a pre-aggregated view. " \o
    "Views already have values in dollars - division may be incorrect."

InjectionMessage == "Potential SQL injection pattern detected"

NoLimitWarning ==
    "Query has no LIMIT clause. Consider adding LIMIT " \o
    "to prevent returning too many rows."

SelectStarWarning == "Using SELECT * on base tables. Consider selecting specific columns."

\* Check 1: the keywords found as whole words, in list order
DangerousKeywordsIn(sql_upper) ==
    SelectSeq(DANGEROUS_KEYWORDS, LAMBDA keyword : SearchWholeWord(sql_upper, keyword))

DangerousErrors(sql_upper) ==
    LET found == DangerousKeywordsIn(sql_upper)
    IN  [k \in 1..Len(found) |-> DangerousMessage(found[k])]

\* Check 6: the injection patterns, searched in sql_upper
injection_patterns ==
    << << Lit(";"), Sp0("--") >>,
       << Lit("'"), Sp0("OR"), Sp0("'1'"), Sp0("="), Sp0("'1") >>,
       << Lit("'"), Sp0("OR"), Sp0("1"), Sp0("="), Sp0("1") >>,
       << Lit("UNION"), Sp1("SELECT") >>,
       << Lit("INTO"), Sp1("OUTFILE") >>,
       << Lit("LOAD_FILE") >> >>

HasInjection(sql_upper) ==
    \E k \in 1..Len(injection_patterns) : SearchPieces(sql_upper, injection_patterns[k])

\* SQLValidator.validate(sql) -> ValidationResult(is_valid, errors, warnings)
validate(sql) ==
    LET sql_upper == StrUpper(sql)
        sql_lower == StrLower(sql)
        sql_stripped == StrUpper(StrStrip(sql))
        uses_cents_column == ContainsAny(sql_lower, CENTS_COLUMNS)
        uses_base_table == ContainsAny(sql_lower, CENTS_TABLES)
        has_division == Contains(sql, "/100") \/ Contains(sql, "/ 100")
        uses_view == ContainsAny(sql_lower, DOLLAR_VIEWS)
        e1 == DangerousErrors(sql_upper)
        e2 == IF ~(StartsWith(sql_stripped, "SELECT") \/ StartsWith(sql_stripped, "WITH"))
              THEN << StartMessage >> ELSE << >>
        e3 == IF uses_cents_column /\ uses_base_table /\ ~has_division
              THEN << CentsMessage >> ELSE << >>
        e4 == IF Contains(sql_lower, "unified_orders") /\ ~Contains(sql_lower, "voided")
              THEN << VoidedMessage >> ELSE << >>
        w4 == IF /\ Contains(sql_lower, "unified_orders")
                 /\ Contains(sql_lower, "voided")
                 /\ (Contains(sql_lower, "voided = true") \/ Contains(sql_lower, "voided=true"))
              THEN << VoidedTrueWarning >> ELSE << >>
        w5 == IF uses_view /\ has_division /\ ~Contains(sql_lower, "cents")
              THEN << ViewDivisionWarning >> ELSE << >>
        e6 == IF HasInjection(sql_upper) THEN << InjectionMessage >> ELSE << >>
        w7 == IF /\ ~Contains(sql_upper, "LIMIT")
                 /\ ~Contains(sql_upper, "COUNT(")
                 /\ ~Contains(sql_upper, "GROUP BY")
              THEN << NoLimitWarning >> ELSE << >>
        w8 == IF /\ Contains(sql_upper, "SELECT *")
                 /\ ~Contains(sql_lower, "mv_")
                 /\ Contains(sql_lower, "unified_")
              THEN << SelectStarWarning >> ELSE << >>
        errors == e1 \o e2 \o e3 \o e4 \o e6
        warnings == w4 \o w5 \o w7 \o w8
    IN  [is_valid |-> Len(errors) = 0, errors |-> errors, warnings |-> warnings]

\* ------------------------------------------------------------------------
\* agents/sql_validator.py : _context_validation
\* ------------------------------------------------------------------------

aggregates == << "sum(", "count(", "avg(", "min(", "max(" >>

categorical_fields ==
    << "order_type", "location_name", "location_code", "product", "category",
       "payment_type", "source_system", "order_date", "day_of_week" >>

date_patterns == << "order_date", "payment_date", "created_at" >>

materialized_views == DOLLAR_VIEWS

\* the text before the list of recommended tables
TablesWarning == "SQL doesn't use recommended tables"

GroupByMessage ==
    "Query has aggregate functions with non-aggregated columns but no GROUP BY. " \o
    "When comparing categories (e.g., order_type, location) or selecting categorical fields with aggregates, " \o
    "you must use GROUP BY. Example: SELECT order_type, SUM(total_revenue) FROM ... GROUP BY order_type"

OrderByWarning == "Query has GROUP BY but no ORDER BY. Results may be in arbitrary order."

DateFilterWarning ==
    "Time range was specified but no date filter found in SQL. " \o
    "The query might not be time-filtered correctly."

ViewsWarning == "Views were recommended for performance but base tables were used instead."

\* _context_validation(sql, state) -> (errors, warnings)
_context_validation(sql, relevant_tables, time_range, use_views) ==
    LET sql_lower == StrLower(sql)
        tables_in_sql == SelectSeq(relevant_tables, LAMBDA table : Contains(sql_lower, StrLower(table)))
        has_aggregate == ContainsAny(sql_lower, aggregates)
        has_group_by == Contains(sql_lower, "group by")
        select_part == StrStrip(RemoveAll(SplitFirst(sql_lower, "from"), "select"))
        has_categorical == ContainsAny(select_part, categorical_fields)
        comma_count_positive == Contains(select_part, ",")
        group_by_part == IF has_group_by THEN SplitSecond(sql_lower, "group by") ELSE ""
        w1 == IF Len(relevant_tables) > 0 /\ Len(tables_in_sql) = 0
              THEN << TablesWarning >> ELSE << >>
        e2 == IF has_aggregate /\ ~has_group_by /\ (comma_count_positive \/ has_categorical)
              THEN << GroupByMessage >> ELSE << >>
        w3 == IF ~Contains(sql_lower, "limit") /\ has_group_by /\ ~Contains(group_by_part, "order by")
              THEN << OrderByWarning >> ELSE << >>
        w4 == IF time_range.relative # None /\ ~ContainsAny(sql_lower, date_patterns)
              THEN << DateFilterWarning >> ELSE << >>
        w5 == IF use_views /\ ~ContainsAny(sql_lower, materialized_views)
              THEN << ViewsWarning >> ELSE << >>
    IN  [errors |-> e2, warnings |-> w1 \o w3 \o w4 \o w5]

\* ------------------------------------------------------------------------
\* Bounds of the model
\* ------------------------------------------------------------------------

\* largest number of SALES_ANALYSIS pattern matches in a query
MaxMatches == 2

\* largest number of CATEGORY_ANALYSIS pattern matches in a query
MaxCategoryMatches == 1

\* largest retry budget (max_retries) a session is created with
MaxRetriesBound == 2

\* largest number of SQL executions the API handler is followed through
MaxExecutions == 3

\* largest result_retry_count of a state handed to should_retry_sql
MaxResultRetryCount == 2

\* longest list of mentions of one entity kind, and largest number of
\* normalisations of one list
MaxMentions == 2

MaxNormalizations == 2

\* largest number of validations of one state
MaxValidations == 2

\* ------------------------------------------------------------------------
\* models/state.py
\* ------------------------------------------------------------------------

\* QueryIntent values that have pattern families, in INTENT_PATTERNS order
PatternIntents ==
    << "sales_analysis", "product_analysis", "location_comparison", "time_series",
       "payment_analysis", "order_type_analysis", "source_comparison",
       "category_analysis", "performance_metrics", "customer_analysis" >>

UNKNOWN == "unknown"

QueryIntent == {PatternIntents[k] : k \in 1..Len(PatternIntents)} \cup {UNKNOWN}

\* max_retries of create_initial_state
DefaultMaxRetries == 1

\* create_initial_state(user_query)
create_initial_state(user_query) ==
    [ user_query            |-> user_query,
      query_intent          |-> UNKNOWN,
      intent_confidence     |-> 0,
      time_range            |-> [relative |-> None],
      relevant_tables       |-> << >>,
      use_views             |-> FALSE,
      generated_sql         |-> "",
      sql_validation_passed |-> FALSE,
      sql_errors            |-> << >>,
      sql_warnings          |-> << >>,
      execution_error       |-> None,
      results_valid         |-> TRUE,
      sql_corrected         |-> FALSE,
      needs_clarification   |-> FALSE,
      clarification_question |-> "",
      retry_count           |-> 0,
      max_retries           |-> DefaultMaxRetries,
      result_retry_count    |-> 0,
      agent_trace           |-> << >> ]

\* ------------------------------------------------------------------------
\* agents/intent_and_schema_agent.py
\* ------------------------------------------------------------------------

\* A user query, as far as the classifier reads it: the number of regex
\* matches of each intent's pattern families, the number of category names
\* it mentions, whether it holds a row-level-detail keyword, the word
\* "hour", one of the payment-method keywords, and the relative time token
\* _extract_time_range finds in it (None if none).
QueryOf(sales, category, mentions, base, relative) ==
    [ matches |-> [i \in 1..Len(PatternIntents) |->
                      IF PatternIntents[i] = "sales_analysis" THEN sales
                      ELSE IF PatternIntents[i] = "category_analysis" THEN category
                      ELSE 0],
      category_mentions |-> mentions,
      base_keyword |-> base,
      hour_keyword |-> FALSE,
      payment_keyword |-> FALSE,
      relative |-> relative ]

\* every category name is also a match of the last CATEGORY_ANALYSIS pattern
Min(a, b) == IF a <= b THEN a ELSE b

QueryBaseKeywords == {FALSE}

QueryTimeTokens == {None}

\* "Compare delivery vs dine-in revenue": "revenue" matches one
\* SALES_ANALYSIS pattern, "delivery vs" and "compare delivery" match two
\* ORDER_TYPE_ANALYSIS patterns; no base-table keyword, no time token
CompareOrderTypesQuery ==
    [ matches |-> [i \in 1..Len(PatternIntents) |->
                      IF PatternIntents[i] = "sales_analysis" THEN 1
                      ELSE IF PatternIntents[i] = "order_type_analysis" THEN 2
                      ELSE 0],
      category_mentions |-> 0,
      base_keyword |-> FALSE,
      hour_keyword |-> FALSE,
      payment_keyword |-> FALSE,
      relative |-> None ]

Queries ==
    UNION { { QueryOf(s, c, m, b, t) : s \in 0..MaxMatches, m \in 0..Min(1, c),
                                       b \in QueryBaseKeywords, t \in QueryTimeTokens }
            : c \in 0..MaxCategoryMatches }
    \cup { CompareOrderTypesQuery }

\* intent_scores: pattern matches plus the category boost, per intent index
intent_scores(query) ==
    [i \in 1..Len(PatternIntents) |->
        IF PatternIntents[i] = "category_analysis"
           /\ query.matches[i] > 0 /\ query.category_mentions > 0
        THEN query.matches[i] + Min(2, query.category_mentions)
        ELSE query.matches[i]]

\* rule_based_intent_detection with a confidence that is not capped
rule_based_intent_detection_uncapped(query) ==
    LET scores == intent_scores(query)
        scored == {i \in 1..Len(PatternIntents) : scores[i] > 0}
        max_score == CHOOSE m \in {scores[i] : i \in scored} :
                        \A i \in scored : scores[i] <= m
        best == CHOOSE i \in scored :
                    /\ scores[i] = max_score
                    /\ \A j \in scored : scores[j] = max_score => i <= j
        others == scored \ {best}
        second_best_score ==
            IF others = {} THEN 0
            ELSE CHOOSE m \in {scores[i] : i \in others} : \A i \in others : scores[i] <= m
    IN  IF scored = {} THEN << >>
        ELSE IF max_score >= 2 /\ (second_best_score = 0 \/ max_score >= 2 * second_best_score)
        THEN << PatternIntents[best], 75 + (max_score - 2) * 8 >>
        ELSE IF second_best_score = 0
        THEN << PatternIntents[best], 75 >>
        ELSE << PatternIntents[best], 60 >>

\* rule_based_intent_detection(query) -> the tuple (intent, confidence), or
\* << >> for None; confidences are in hundredths
rule_based_intent_detection(query) ==
    LET scores == intent_scores(query)
        scored == {i \in 1..Len(PatternIntents) : scores[i] > 0}
        max_score == CHOOSE m \in {scores[i] : i \in scored} :
                        \A i \in scored : scores[i] <= m
        \* max() keeps the first intent of maximal score
        best == CHOOSE i \in scored :
                    /\ scores[i] = max_score
                    /\ \A j \in scored : scores[j] = max_score => i <= j
        others == scored \ {best}
        second_best_score ==
            IF others = {} THEN 0
            ELSE CHOOSE m \in {scores[i] : i \in others} : \A i \in others : scores[i] <= m
    IN  IF scored = {} THEN << >>
        ELSE IF max_score >= 2 /\ (second_best_score = 0 \/ max_score >= 2 * second_best_score)
        THEN << PatternIntents[best], Min(95, 75 + (max_score - 2) * 8) >>
        ELSE IF second_best_score = 0
        THEN << PatternIntents[best], 75 >>
        ELSE << PatternIntents[best], 60 >>

\* _fallback_schema_analysis: intent_to_tables.get(intent, default), with
\* the three keyword tests of the query text
FallbackConfig(query_intent, needs_base_tables, hour, payment_keyword) ==
            IF query_intent = "sales_analysis"
            THEN [tables |-> IF ~needs_base_tables THEN << "mv_daily_sales_summary" >>
                             ELSE << "unified_orders", "unified_locations" >>,
                  use_views |-> ~needs_base_tables]
            ELSE IF query_intent = "product_analysis"
            THEN [tables |-> IF ~needs_base_tables THEN << "mv_product_sales_summary" >>
                             ELSE << "unified_order_items", "unified_products" >>,
                  use_views |-> ~needs_base_tables]
            ELSE IF query_intent = "location_comparison"
            THEN [tables |-> << "mv_location_performance", "mv_daily_sales_summary" >>,
                  use_views |-> TRUE]
            ELSE IF query_intent = "time_series"
            THEN [tables |-> IF ~hour THEN << "mv_daily_sales_summary" >>
                             ELSE << "mv_hourly_sales_pattern" >>,
                  use_views |-> TRUE]
            ELSE IF query_intent = "payment_analysis"
            THEN [tables |-> IF payment_keyword THEN << "mv_payment_methods_by_source" >>
                             ELSE << "unified_payments", "unified_orders" >>,
                  use_views |-> payment_keyword]
            ELSE IF query_intent = "order_type_analysis"
            THEN [tables |-> << "mv_order_type_performance" >>, use_views |-> TRUE]
            ELSE IF query_intent = "category_analysis"
            THEN [tables |-> << "mv_category_sales_summary" >>, use_views |-> TRUE]
            ELSE [tables |-> << "mv_daily_sales_summary" >>, use_views |-> TRUE]

\* the fallback with use_views taken from the keyword test itself
_fallback_schema_analysis_keyword_views(state) ==
    LET config == FallbackConfig(state.query_intent, state.user_query.base_keyword,
                                 state.user_query.hour_keyword,
                                 state.user_query.payment_keyword)
    IN  [state EXCEPT !.relevant_tables = config.tables,
                      !.use_views = state.user_query.base_keyword]

\* _fallback_schema_analysis(state)
_fallback_schema_analysis(state) ==
    LET config == FallbackConfig(state.query_intent, state.user_query.base_keyword,
                                 state.user_query.hour_keyword,
                                 state.user_query.payment_keyword)
    IN  [state EXCEPT !.relevant_tables = config.tables, !.use_views = config.use_views]

\* The parsed JSON object of the reasoning service, as far as it is read.
\* A key is << >> when the object lacks it and << value >> when it has it.
LlmIntents == {"sales_analysis", "no_such_intent"}

LlmConfidences == { << >>, << 50 >>, << 60 >>, << 90 >> }

LlmFlags == { << >>, << TRUE >>, << FALSE >> }

LlmQuestions == { << >>, << "" >>, << "Which time period do you mean?" >> }

LlmTables == { << >>, << "unified_orders" >> }

\* every (flag, confidence) pair, and every other key varied at a low and at
\* a high confidence
LlmResponses ==
    [ intent : {"sales_analysis"}, confidence : LlmConfidences,
      needs_clarification : LlmFlags, clarification_question : { << >> },
      tables : { << "unified_orders" >> } ]
    \cup
    [ intent : LlmIntents, confidence : { << 50 >>, << 90 >> },
      needs_clarification : { << >> }, clarification_question : LlmQuestions,
      tables : { << >> } ]

\* outcomes of the classifier's round trip: the chain raises, the text is not
\* JSON, or a JSON object is parsed
ClassifierOutcomes ==
    {[kind |-> "exception"], [kind |-> "unparseable"]} \cup
    {[kind |-> "parsed", result |-> r] : r \in LlmResponses}

\* dict.get(key, default)
Get(value, default) == IF value = << >> THEN default ELSE value[1]

ParseErrorQuestion == "I couldn't understand your query. Could you please rephrase it?"

ServiceErrorQuestion == "An error occurred while processing your query. Please try again."

\* the except Exception branch of intent_and_schema_agent
ClassifierException(state, agent_trace) ==
    [_fallback_schema_analysis(
        [state EXCEPT !.clarification_question = ServiceErrorQuestion,
                      !.query_intent = UNKNOWN,
                      !.intent_confidence = 0,
                      !.needs_clarification = TRUE])
     EXCEPT !.agent_trace = agent_trace]

\* intent_and_schema_agent(state), fast path
ClassifierFastPath(state, rule_result, agent_trace) ==
    [_fallback_schema_analysis(
        [state EXCEPT !.query_intent = rule_result[1],
                      !.intent_confidence = rule_result[2],
                      !.time_range = [relative |-> state.user_query.relative],
                      !.needs_clarification = FALSE,
                      !.clarification_question = ""])
     EXCEPT !.agent_trace = agent_trace]

\* the try block that keeps whatever table list the response holds
ClassifierParsed_without_fallback(state, result, agent_trace) ==
    LET query_intent == IF result.intent \in QueryIntent THEN result.intent ELSE UNKNOWN
        confidence == Get(result.confidence, 0)
        flag == Get(result.needs_clarification, FALSE)
        needs_clarification == flag \/ confidence < 60
        s1 == [state EXCEPT !.query_intent = query_intent,
                            !.intent_confidence = confidence,
                            !.time_range = [relative |-> None],
                            !.needs_clarification = needs_clarification,
                            !.clarification_question = Get(result.clarification_question, "")]
    IN  [s1 EXCEPT !.relevant_tables = result.tables,
                   !.use_views = FALSE,
                   !.agent_trace = agent_trace]

\* the try block with the threshold compared by <= instead of <
ClassifierParsed_at_most(state, result, agent_trace) ==
    LET query_intent == IF result.intent \in QueryIntent THEN result.intent ELSE UNKNOWN
        confidence == Get(result.confidence, 0)
        flag == Get(result.needs_clarification, FALSE)
        needs_clarification == flag \/ confidence <= 60
        s1 == [state EXCEPT !.query_intent = query_intent,
                            !.intent_confidence = confidence,
                            !.time_range = [relative |-> None],
                            !.needs_clarification = needs_clarification,
                            !.clarification_question = Get(result.clarification_question, "")]
    IN  IF Len(result.tables) = 0
        THEN [_fallback_schema_analysis(s1) EXCEPT !.agent_trace = agent_trace]
        ELSE [s1 EXCEPT !.relevant_tables = result.tables,
                        !.use_views = FALSE,
                        !.agent_trace = agent_trace]

\* intent_and_schema_agent(state), the body of the try block after json.loads
ClassifierParsed(state, result, agent_trace) ==
    LET query_intent == IF result.intent \in QueryIntent THEN result.intent ELSE UNKNOWN
        confidence == Get(result.confidence, 0)
        flag == Get(result.needs_clarification, FALSE)
        needs_clarification == flag \/ confidence < 60
        s1 == [state EXCEPT !.query_intent = query_intent,
                            !.intent_confidence = confidence,
                            !.time_range = [relative |-> None],
                            !.needs_clarification = needs_clarification,
                            !.clarification_question = Get(result.clarification_question, "")]
    IN  IF Len(result.tables) = 0
        THEN [_fallback_schema_analysis(s1) EXCEPT !.agent_trace = agent_trace]
        ELSE [s1 EXCEPT !.relevant_tables = result.tables,
                        !.use_views = FALSE,
                        !.agent_trace = agent_trace]

\* the except json.JSONDecodeError branch that does not ask for clarification
ClassifierParseError_silent(state, agent_trace) ==
    [_fallback_schema_analysis(
        [state EXCEPT !.query_intent = UNKNOWN,
                      !.intent_confidence = 0])
     EXCEPT !.agent_trace = agent_trace]

\* the except json.JSONDecodeError branch
ClassifierParseError(state, agent_trace) ==
    [_fallback_schema_analysis(
        [state EXCEPT !.query_intent = UNKNOWN,
                      !.intent_confidence = 0,
                      !.needs_clarification = TRUE,
                      !.clarification_question = ParseErrorQuestion])
     EXCEPT !.agent_trace = agent_trace]

\* the fast path test with > instead of >=
FastPath_strict(rule_result) == rule_result # << >> /\ rule_result[2] > 75

\* the fast path is taken: `rule_result and rule_result[1] >= 0.75`
FastPath(rule_result) == rule_result # << >> /\ rule_result[2] >= 75

\* intent_and_schema_agent(state) for one outcome of the round trip
intent_and_schema_agent(state, outcome) ==
    LET agent_trace == Append(state.agent_trace, "intent_and_schema")
        rule_result == rule_based_intent_detection(state.user_query)
    IN  IF FastPath(rule_result) THEN ClassifierFastPath(state, rule_result, agent_trace)
        ELSE IF outcome.kind = "parsed" THEN ClassifierParsed(state, outcome.result, agent_trace)
        ELSE IF outcome.kind = "unparseable" THEN ClassifierParseError(state, agent_trace)
        ELSE ClassifierException(state, agent_trace)

\* ------------------------------------------------------------------------
\* agents/sql_generator.py
\* ------------------------------------------------------------------------

GoodViewSql ==
    "SELECT order_type, SUM(net_revenue) FROM mv_order_type_performance GROUP BY order_type ORDER BY 2"

ConvertedSql == "SELECT SUM(total_cents)/100.0 FROM unified_orders WHERE voided = FALSE"

NoConversionNoVoidSql == "SELECT SUM(total_cents) FROM unified_orders"

\* SQL texts the reasoning service may put in the "sql" key
SqlCatalog ==
    { GoodViewSql, ConvertedSql, NoConversionNoVoidSql,
      "SELECT created_at, updated_at FROM mv_daily_sales_summary LIMIT 5",
      "SELECT order_type, SUM(net_revenue) FROM mv_order_type_performance",
      "DROP TABLE unified_orders",
      "select 1; delete from mv_daily_sales_summary",
      "WITH t AS (SELECT 1) Insert INTO t SELECT 2",
      "" }

\* outcomes of the generator's round trip: the chain raises, the text is not
\* JSON, or a JSON object is parsed whose "sql" key holds a text ("" if absent)
GeneratorOutcomes ==
    {[kind |-> "exception", sql |-> ""], [kind |-> "unparseable", sql |-> ""]} \cup
    {[kind |-> "parsed", sql |-> t] : t \in SqlCatalog}

ParseFailureMessage == "Failed to parse LLM response"

ServiceFailureMessage == "reasoning service unavailable"

\* the RETRY section sql_generator_agent adds to its prompt
GeneratorPrompt(state) ==
    LET has_errors == state.retry_count > 0
                      /\ (Len(state.sql_errors) > 0 \/ state.execution_error # None)
        error_list == state.sql_errors \o
                      (IF state.execution_error # None
                       THEN << "SQL Execution Error: " \o state.execution_error >>
                       ELSE << >>)
    IN  IF has_errors
        THEN [retry |-> TRUE, errors |-> error_list, failed_sql |-> state.generated_sql]
        ELSE [retry |-> FALSE, errors |-> << >>, failed_sql |-> ""]

\* sql_generator_agent(state) for one outcome of the round trip
sql_generator_agent(state, outcome) ==
    LET agent_trace == Append(state.agent_trace, "sql_generator")
    IN  IF outcome.kind = "parsed"
        THEN [state EXCEPT !.generated_sql = outcome.sql,
                           !.agent_trace = agent_trace,
                           !.sql_errors = << >>,
                           !.sql_validation_passed = FALSE]
        ELSE IF outcome.kind = "unparseable"
        THEN [state EXCEPT !.generated_sql = "",
                           !.sql_errors = << ParseFailureMessage >>,
                           !.agent_trace = agent_trace]
        ELSE [state EXCEPT !.generated_sql = "",
                           !.sql_errors = << ServiceFailureMessage >>,
                           !.agent_trace = agent_trace]

\* ------------------------------------------------------------------------
\* agents/sql_validator.py, agents/result_validator.py
\* ------------------------------------------------------------------------

NoSqlMessage == "No SQL query generated"

\* the schema selections a session can hold when the validator runs
TableLists ==
    {FallbackConfig(i, b, h, p).tables :
        i \in QueryIntent, b \in BOOLEAN, h \in BOOLEAN, p \in BOOLEAN} \cup LlmTables

TimeRanges == {[relative |-> t] : t \in QueryTimeTokens \cup {None}}

\* SQL texts handed to the validator directly: those of the catalog, and the
\* statements of tests/test_agents.py (TestSQLValidator) with their variants
SpacedConversionSql ==
    "SELECT SUM(total_cents) / 100.0 as total FROM unified_orders WHERE voided = FALSE"

NoConversionSql == "SELECT SUM(total_cents) as total FROM unified_orders WHERE voided = FALSE"

NoVoidFilterSql == "SELECT COUNT(*) FROM unified_orders"

VoidFilterSql == "SELECT COUNT(*) FROM unified_orders WHERE voided = FALSE"

VoidedTrueSql == "SELECT COUNT(*) FROM unified_orders WHERE voided = true"

UpperCaseSql == "SELECT SUM(TOTAL_CENTS) FROM UNIFIED_ORDERS WHERE VOIDED=TRUE"

ViewCentsSql == "SELECT SUM(total_cents) FROM mv_daily_sales_summary LIMIT 1"

\* the modifier prices, stored in cents by the ingestion
ModifierCentsSql == "SELECT SUM(price_cents) FROM unified_order_item_modifiers"

\* SELECT lists made of aggregate expressions only
TwoAggregatesSql == "SELECT SUM(total_revenue), COUNT(*) FROM mv_daily_sales_summary LIMIT 1"

RoundedAggregateSql == "SELECT ROUND(SUM(total_revenue), 2) FROM mv_daily_sales_summary LIMIT 1"

ValidatorTexts ==
    SqlCatalog \cup
    { SpacedConversionSql, NoConversionSql, NoVoidFilterSql, VoidFilterSql,
      VoidedTrueSql, UpperCaseSql, ViewCentsSql, ModifierCentsSql,
      TwoAggregatesSql, RoundedAggregateSql }

\* SQLValidator.validate and _context_validation are pure: their values on
\* the texts and selections of the model are computed once
ValidationResult == [t \in ValidatorTexts |-> validate(t)]

ContextResult ==
    [t \in ValidatorTexts, tables \in TableLists, time_range \in TimeRanges,
     use_views \in BOOLEAN |-> _context_validation(t, tables, time_range, use_views)]

\* the validator that lets a warning fail the validation
sql_validator_agent_warnings_fail(state) ==
    LET agent_trace == Append(state.agent_trace, "sql_validator")
        sql == state.generated_sql
        result == ValidationResult[sql]
        context == ContextResult[sql, state.relevant_tables, state.time_range,
                                 state.use_views]
        all_errors == result.errors \o context.errors
        all_warnings == result.warnings \o context.warnings
        passed == Len(all_errors) = 0 /\ Len(all_warnings) = 0
    IN  IF Len(sql) = 0 \/ Len(StrStrip(sql)) = 0
        THEN [state EXCEPT !.sql_validation_passed = FALSE,
                           !.sql_errors = << NoSqlMessage >>,
                           !.sql_warnings = << >>,
                           !.agent_trace = agent_trace]
        ELSE [state EXCEPT !.sql_validation_passed = passed,
                           !.sql_errors = all_errors,
                           !.sql_warnings = all_warnings,
                           !.agent_trace = agent_trace,
                           !.retry_count = IF ~passed /\ @ < state.max_retries
                                           THEN @ + 1 ELSE @]

\* the validator that adds its warnings to those already in the state
sql_validator_agent_accumulating(state) ==
    LET agent_trace == Append(state.agent_trace, "sql_validator")
        sql == state.generated_sql
        result == ValidationResult[sql]
        context == ContextResult[sql, state.relevant_tables, state.time_range,
                                 state.use_views]
        all_errors == result.errors \o context.errors
        all_warnings == state.sql_warnings \o result.warnings \o context.warnings
        passed == Len(all_errors) = 0
    IN  IF Len(sql) = 0 \/ Len(StrStrip(sql)) = 0
        THEN [state EXCEPT !.sql_validation_passed = FALSE,
                           !.sql_errors = << NoSqlMessage >>,
                           !.sql_warnings = << >>,
                           !.agent_trace = agent_trace]
        ELSE [state EXCEPT !.sql_validation_passed = passed,
                           !.sql_errors = all_errors,
                           !.sql_warnings = all_warnings,
                           !.agent_trace = agent_trace,
                           !.retry_count = IF ~passed /\ @ < state.max_retries
                                           THEN @ + 1 ELSE @]

\* the validator whose empty-SQL return does not record the visit
sql_validator_agent_untracked(state) ==
    LET agent_trace == Append(state.agent_trace, "sql_validator")
        sql == state.generated_sql
        result == ValidationResult[sql]
        context == ContextResult[sql, state.relevant_tables, state.time_range,
                                 state.use_views]
        all_errors == result.errors \o context.errors
        all_warnings == result.warnings \o context.warnings
        passed == Len(all_errors) = 0
    IN  IF Len(sql) = 0 \/ Len(StrStrip(sql)) = 0
        THEN [state EXCEPT !.sql_validation_passed = FALSE,
                           !.sql_errors = << NoSqlMessage >>,
                           !.sql_warnings = << >>]
        ELSE [state EXCEPT !.sql_validation_passed = passed,
                           !.sql_errors = all_errors,
                           !.sql_warnings = all_warnings,
                           !.agent_trace = agent_trace,
                           !.retry_count = IF ~passed /\ @ < state.max_retries
                                           THEN @ + 1 ELSE @]

\* the validator with the increment of retry_count not compared to max_retries
sql_validator_agent_unguarded(state) ==
    LET agent_trace == Append(state.agent_trace, "sql_validator")
        sql == state.generated_sql
        result == ValidationResult[sql]
        context == ContextResult[sql, state.relevant_tables, state.time_range,
                                 state.use_views]
        all_errors == result.errors \o context.errors
        all_warnings == result.warnings \o context.warnings
        passed == Len(all_errors) = 0
    IN  IF Len(sql) = 0 \/ Len(StrStrip(sql)) = 0
        THEN [state EXCEPT !.sql_validation_passed = FALSE,
                           !.sql_errors = << NoSqlMessage >>,
                           !.sql_warnings = << >>,
                           !.agent_trace = agent_trace]
        ELSE [state EXCEPT !.sql_validation_passed = passed,
                           !.sql_errors = all_errors,
                           !.sql_warnings = all_warnings,
                           !.agent_trace = agent_trace,
                           !.retry_count = IF ~passed THEN @ + 1 ELSE @]

\* sql_validator_agent(state)
sql_validator_agent(state) ==
    LET agent_trace == Append(state.agent_trace, "sql_validator")
        sql == state.generated_sql
        result == ValidationResult[sql]
        context == ContextResult[sql, state.relevant_tables, state.time_range,
                                 state.use_views]
        all_errors == result.errors \o context.errors
        all_warnings == result.warnings \o context.warnings
        passed == Len(all_errors) = 0
    IN  IF Len(sql) = 0 \/ Len(StrStrip(sql)) = 0
        THEN [state EXCEPT !.sql_validation_passed = FALSE,
                           !.sql_errors = << NoSqlMessage >>,
                           !.sql_warnings = << >>,
                           !.agent_trace = agent_trace]
        ELSE [state EXCEPT !.sql_validation_passed = passed,
                           !.sql_errors = all_errors,
                           !.sql_warnings = all_warnings,
                           !.agent_trace = agent_trace,
                           !.retry_count = IF ~passed /\ @ < state.max_retries
                                           THEN @ + 1 ELSE @]

\* result_validator_agent(state)
result_validator_agent(state) ==
    [state EXCEPT !.results_valid = TRUE,
                  !.agent_trace = Append(@, "result_validator")]

\* ------------------------------------------------------------------------
\* agent_framework.py
\* ------------------------------------------------------------------------

END == "END"

\* the router with the clarify branch lost
should_clarify_always_schema(state) == "schema"

\* should_clarify(state)
should_clarify(state) == IF state.needs_clarification THEN "clarify" ELSE "schema"

\* should_retry(state)
should_retry(state) ==
    IF state.sql_validation_passed THEN "execute"
    ELSE IF state.retry_count < state.max_retries THEN "retry"
    ELSE "error"

\* the router without the test of results_valid
should_retry_sql_unconditional(state) ==
    IF state.result_retry_count < 1
    THEN [route |-> "retry",
          state |-> [state EXCEPT !.result_retry_count = @ + 1,
                                  !.sql_validation_passed = FALSE]]
    ELSE [route |-> "viz", state |-> state]

\* should_retry_sql(state): the route, and the state with the router's writes
should_retry_sql(state) ==
    IF state.results_valid THEN [route |-> "viz", state |-> state]
    ELSE IF state.sql_corrected /\ state.result_retry_count < 1
    THEN [route |-> "retry",
          state |-> [state EXCEPT !.result_retry_count = @ + 1,
                                  !.sql_validation_passed = FALSE]]
    ELSE [route |-> "viz", state |-> state]

\* create_agent_graph(): the conditional edges
AfterIntentAndSchema(state) ==
    IF should_clarify(state) = "clarify" THEN END ELSE "generate_sql"

AfterValidateSql(state) ==
    IF should_retry(state) = "retry" THEN "generate_sql"
    ELSE IF should_retry(state) = "execute" THEN "validate_results"
    ELSE END

AfterValidateResults(state) ==
    IF should_retry_sql(state).route = "retry" THEN "validate_sql" ELSE END

\* graph.invoke(state) is called without a config: the framework stops a run
\* that needs more than its default number of supersteps (GraphRecursionError)
RecursionLimit == 25

VARIABLES
    agent_state, \* the AgentState of the session (process_query: state / result)
    node,       \* the graph node to run next, END when the graph has finished
    steps,      \* supersteps the graph has run
    phase,      \* "graph", then "respond", "execute", "regenerate", "revalidate", "returned"
    llm_calls,  \* round trips of the classifier to the reasoning service
    gen_prompt, \* the RETRY section of the generator's latest prompt
    handler_sql, \* the handler's local sql
    execution_retry_count,
    executions, \* calls of SupabasePool.execute_query made by the handler
    outcomes,   \* how each of these calls ended, in order
    retry_state,
    response,   \* what the handler returns
    etl,        \* the run of ETLPipeline.ingest_data and its database connection
    viz,        \* utils/viz_cache.py: the module's dicts, the clock, and the
                \* streaming requests with their background tasks
    db          \* database.py: SupabasePool.pool, its lock and the callers

vars == << agent_state, node, steps, phase, llm_calls, gen_prompt, handler_sql,
           execution_retry_count, executions, outcomes, retry_state, response, etl,
           viz, db >>

\* no pipeline run
NoPipeline == [pc |-> "idle"]

\* the visualization cache as the module is imported, no request streaming
NoVisualization == [_viz_cache |-> { }, _cache_metadata |-> { }, pc |-> "idle"]

\* SupabasePool as the class is defined (pool is << >> for None), no caller
NoPool == [pool |-> << >>, pc |-> "idle"]

NoPrompt == [retry |-> FALSE, errors |-> << >>, failed_sql |-> ""]

NoResponse == [kind |-> "none", error_code |-> "", question |-> "", suggestions |-> << >>]

handler_vars ==
    << handler_sql, execution_retry_count, executions, outcomes, retry_state, response >>

\* AgentRunner.process_query(query): a fresh session whose budget is one of
\* budgets
InitWith(budgets) ==
    /\ \E q \in Queries, m \in budgets :
          agent_state = [create_initial_state(q) EXCEPT !.max_retries = m]
    /\ node = "intent_and_schema"
    /\ steps = 0
    /\ phase = "graph"
    /\ llm_calls = 0
    /\ gen_prompt = NoPrompt
    /\ handler_sql = ""
    /\ execution_retry_count = 0
    /\ executions = 0
    /\ outcomes = << >>
    /\ retry_state = agent_state
    /\ response = NoResponse
    /\ etl = NoPipeline
    /\ viz = NoVisualization
    /\ db = NoPool

\* the session as create_initial_state makes it
Init == InitWith({DefaultMaxRetries})

GraphRuns(n) == phase = "graph" /\ node = n /\ steps < RecursionLimit

\* node intent_and_schema, then the should_clarify edge
IntentAndSchema ==
    /\ GraphRuns("intent_and_schema")
    /\ \E outcome \in ClassifierOutcomes :
        /\ agent_state' = intent_and_schema_agent(agent_state, outcome)
        /\ llm_calls' = IF FastPath(rule_based_intent_detection(agent_state.user_query))
                        THEN llm_calls ELSE llm_calls + 1
    /\ node' = AfterIntentAndSchema(agent_state')
    /\ steps' = steps + 1
    /\ UNCHANGED << etl, viz, db, phase, gen_prompt, handler_vars >>

\* node generate_sql, then the edge to validate_sql
GenerateSQL ==
    /\ GraphRuns("generate_sql")
    /\ \E outcome \in GeneratorOutcomes : agent_state' = sql_generator_agent(agent_state, outcome)
    /\ gen_prompt' = GeneratorPrompt(agent_state)
    /\ node' = "validate_sql"
    /\ steps' = steps + 1
    /\ UNCHANGED << etl, viz, db, phase, llm_calls, handler_vars >>

\* node validate_sql, then the should_retry edge
ValidateSQL ==
    /\ GraphRuns("validate_sql")
    /\ agent_state' = sql_validator_agent(agent_state)
    /\ node' = AfterValidateSql(agent_state')
    /\ steps' = steps + 1
    /\ UNCHANGED << etl, viz, db, phase, llm_calls, gen_prompt, handler_vars >>

\* node validate_results, then the should_retry_sql edge
ValidateResults ==
    /\ GraphRuns("validate_results")
    /\ LET routed == should_retry_sql(result_validator_agent(agent_state))
       IN  /\ agent_state' = routed.state
           /\ node' = AfterValidateResults(result_validator_agent(agent_state))
    /\ steps' = steps + 1
    /\ UNCHANGED << etl, viz, db, phase, llm_calls, gen_prompt, handler_vars >>

RecursionErrorText == "Recursion limit reached"

\* AgentRunner.process_query: graph.invoke returned
GraphReturns ==
    /\ phase = "graph"
    /\ node = END
    /\ phase' = "respond"
    /\ UNCHANGED << etl, viz, db, agent_state, node, steps, llm_calls, gen_prompt, handler_vars >>

\* AgentRunner.process_query: graph.invoke raised; the except branch returns
\* the state the run was started with (its agent_trace list is the one the
\* nodes appended to)
GraphRaises ==
    /\ phase = "graph"
    /\ node # END
    /\ steps = RecursionLimit
    /\ agent_state' = [create_initial_state(agent_state.user_query)
                 EXCEPT !.max_retries = agent_state.max_retries,
                        !.execution_error = RecursionErrorText,
                        !.sql_validation_passed = FALSE,
                        !.agent_trace = agent_state.agent_trace]
    /\ phase' = "respond"
    /\ UNCHANGED << etl, viz, db, node, steps, llm_calls, gen_prompt, handler_vars >>

\* ------------------------------------------------------------------------
\* main.py : process_query (POST /api/query)
\* ------------------------------------------------------------------------

\* _get_clarification_suggestions(result)
_get_clarification_suggestions(result) ==
    LET suggestions ==
            IF result.query_intent = "sales_analysis"
            THEN << "What time period are you interested in?",
                    "Which location do you want to analyze?",
                    "Do you want total sales or a breakdown?" >>
            ELSE IF result.query_intent = "product_analysis"
            THEN << "Top selling by quantity or revenue?",
                    "For a specific time period?",
                    "For a specific category?" >>
            ELSE << >>
    IN  SubSeq(suggestions, 1, Min(3, Len(suggestions)))

ClarificationResponse(result) ==
    [kind |-> "clarification", error_code |-> "",
     question |-> result.clarification_question,
     suggestions |-> _get_clarification_suggestions(result)]

\* ErrorResponse(success=False, error_code, error_message, details,
\* suggestions); details is the set of (key, value) pairs of the dict
ErrorResponse(error_code, error_message, details, suggestions) ==
    [kind |-> "error", error_code |-> error_code, question |-> "",
     error_message |-> error_message, details |-> details, suggestions |-> suggestions]

RephraseMessage == "I couldn't understand your question. Could you try rephrasing it?"

RephraseSuggestions ==
    << "Try asking your question more clearly",
       "Be more specific about what data you want to see",
       "Check example queries for guidance",
       "Ask about sales, revenue, products, locations, or orders" >>

\* the details of the answer to a failed validation, with the validator's
\* errors put into them
ValidationFailureDetails_with_errors(result) == { << "errors", result.sql_errors >> }

\* details={} of the answer to a failed validation
ValidationFailureDetails(result) == { }

QueryResponse ==
    [kind |-> "query", error_code |-> "", question |-> "", suggestions |-> << >>]

\* the handler without the test of the validation verdict
Respond_unvalidated ==
    /\ phase = "respond"
    /\ \E _shutdown_in_progress \in BOOLEAN :
        IF agent_state.needs_clarification
        THEN /\ response' = ClarificationResponse(agent_state)
             /\ phase' = "returned"
             /\ handler_sql' = handler_sql
        ELSE IF agent_state.generated_sql = ""
        THEN /\ response' = ErrorResponse("NO_SQL_GENERATED", RephraseMessage, { },
                                           RephraseSuggestions)
             /\ phase' = "returned"
             /\ handler_sql' = agent_state.generated_sql
        ELSE IF _shutdown_in_progress
        THEN /\ response' = ErrorResponse("SHUTDOWN_IN_PROGRESS",
                  "The system is temporarily unavailable. Please wait a moment and try again.",
                  { }, << "Wait a few seconds and try again" >>)
             /\ phase' = "returned"
             /\ handler_sql' = agent_state.generated_sql
        ELSE /\ response' = response
             /\ phase' = "execute"
             /\ handler_sql' = agent_state.generated_sql
    /\ UNCHANGED << etl, viz, db, agent_state, node, steps, llm_calls, gen_prompt, execution_retry_count,
                    executions, outcomes, retry_state >>


\* the handler after runner.process_query: clarification, error, or go on to
\* execute the SQL
Respond ==
    /\ phase = "respond"
    /\ \E _shutdown_in_progress \in BOOLEAN :
        IF agent_state.needs_clarification
        THEN /\ response' = ClarificationResponse(agent_state)
             /\ phase' = "returned"
             /\ handler_sql' = handler_sql
        ELSE IF ~agent_state.sql_validation_passed
        THEN /\ response' = ErrorResponse("SQL_GENERATION_FAILED", RephraseMessage,
                                           ValidationFailureDetails(agent_state),
                                           RephraseSuggestions)
             /\ phase' = "returned"
             /\ handler_sql' = handler_sql
        ELSE IF agent_state.generated_sql = ""
        THEN /\ response' = ErrorResponse("NO_SQL_GENERATED", RephraseMessage, { },
                                           RephraseSuggestions)
             /\ phase' = "returned"
             /\ handler_sql' = agent_state.generated_sql
        ELSE IF _shutdown_in_progress
        THEN /\ response' = ErrorResponse("SHUTDOWN_IN_PROGRESS",
                  "The system is temporarily unavailable. Please wait a moment and try again.",
                  { }, << "Wait a few seconds and try again" >>)
             /\ phase' = "returned"
             /\ handler_sql' = agent_state.generated_sql
        ELSE /\ response' = response
             /\ phase' = "execute"
             /\ handler_sql' = agent_state.generated_sql
    /\ UNCHANGED << etl, viz, db, agent_state, node, steps, llm_calls, gen_prompt, execution_retry_count,
                    executions, outcomes, retry_state >>

max_execution_retries == 1

\* outcomes of SupabasePool.execute_query(sql): rows, a database error, the
\* statement timeout, or the request is cancelled while it waits
ExecutionOutcomes == {"rows", "error", "timeout", "cancelled"}

ExecutionErrorText(outcome) ==
    IF outcome = "timeout" THEN "Query exceeded 30 second timeout"
    ELSE "column does not exist"

\* parse_sql_error(error) -> (user_friendly_message, suggestions_list)
parse_sql_error(error) ==
    LET error_str == StrLower(error)
    IN  IF Contains(error_str, "column") /\ (Contains(error_str, "does not exist") \/ Contains(error_str, "not found"))
        THEN
          [ message |-> "I couldn't find the information you're looking for. The data might not be available in the format you requested.",
            suggestions |->
              << "Try rephrasing your question using different terms",
                 "Be more specific about what you want to see (e.g., 'sales by location' instead of 'location data')",
                 "Ask about sales, revenue, products, locations, or orders",
                 "Check if you're asking about the right time period (data is from January 1-4, 2025)" >> ]
        ELSE IF Contains(error_str, "relation") /\ (Contains(error_str, "does not exist") \/ Contains(error_str, "not found"))
        THEN
          [ message |-> "I couldn't find the information you're looking for. Please try rephrasing your question.",
            suggestions |->
              << "Try asking about sales, revenue, products, locations, or orders",
                 "Be more specific about what data you want to see",
                 "Check example queries for guidance" >> ]
        ELSE IF Contains(error_str, "syntax error") \/ Contains(error_str, "parse error")
        THEN
          [ message |-> "I had trouble understanding your question. Could you try rephrasing it?",
            suggestions |->
              << "Try asking your question more clearly",
                 "Be more specific about what you want to see",
                 "Break down complex questions into simpler parts",
                 "Example: 'What were our top selling products last week?'" >> ]
        ELSE IF Contains(error_str, "timeout") \/ Contains(error_str, "exceeded")
        THEN
          [ message |-> "Your request is taking longer than expected. Let's try a simpler question.",
            suggestions |->
              << "Try asking about a more specific time period or location",
                 "Narrow down your question (e.g., 'sales at Downtown location' instead of 'all sales')",
                 "Ask about a smaller subset of data" >> ]
        ELSE IF Contains(error_str, "permission") \/ Contains(error_str, "access denied") \/ Contains(error_str, "forbidden")
        THEN
          [ message |-> "I don't have access to that information right now.",
            suggestions |->
              << "Try asking about different data (sales, revenue, products, locations, or orders)",
                 "Contact support if you believe you should have access to this information" >> ]
        ELSE IF Contains(error_str, "division by zero")
        THEN
          [ message |-> "I couldn't calculate that because there's no data for the time period you're asking about.",
            suggestions |->
              << "Try asking about a different time period",
                 "Remember: data is available from January 1-4, 2025" >> ]
        ELSE IF Contains(error_str, "type") /\ (Contains(error_str, "mismatch") \/ Contains(error_str, "cannot"))
        THEN
          [ message |-> "I had trouble calculating what you're asking for. Could you rephrase your question?",
            suggestions |->
              << "Try being more specific about what you want to calculate",
                 "Example: 'What was the total revenue?' or 'How many orders did we have?'" >> ]
        ELSE IF Contains(error_str, "database") \/ Contains(error_str, "postgres")
        THEN
          [ message |-> "Something went wrong while processing your question. Please try again.",
            suggestions |->
              << "Try rephrasing your question",
                 "Wait a moment and try again",
                 "If the problem persists, contact support" >> ]
        ELSE
          [ message |-> "I couldn't process your question. Let's try rephrasing it.",
            suggestions |->
              << "Try asking your question more clearly",
                 "Be more specific about what data you want to see",
                 "Check example queries for guidance",
                 "Ask about sales, revenue, products, locations, or orders" >> ]

\* parse_sql_error(e) for the errors execute_query raises
ParsedError ==
    [outcome \in {"error", "timeout"} |-> parse_sql_error(ExecutionErrorText(outcome))]

\* one pass of the execution loop up to the regeneration attempt
Execute ==
    /\ phase = "execute"
    /\ executions < MaxExecutions
    /\ executions' = executions + 1
    /\ \E outcome \in ExecutionOutcomes :
        /\ outcomes' = Append(outcomes, outcome)
        /\ IF outcome = "rows"
           THEN /\ response' = QueryResponse
                /\ phase' = "returned"
                /\ UNCHANGED << agent_state, execution_retry_count, retry_state >>
           ELSE IF outcome = "cancelled"
           THEN /\ response' = ErrorResponse("QUERY_CANCELLED",
                     "Your request was interrupted. Please try again in a moment.",
                     { }, << "Please wait a moment and try again" >>)
                /\ phase' = "returned"
                /\ UNCHANGED << agent_state, execution_retry_count, retry_state >>
           ELSE /\ execution_retry_count' = execution_retry_count + 1
                /\ IF execution_retry_count' = 1
                   THEN /\ agent_state' = [agent_state EXCEPT !.execution_error = ExecutionErrorText(outcome)]
                        /\ retry_state' = agent_state'
                        /\ phase' = "regenerate"
                        /\ response' = response
                   ELSE /\ response' = ErrorResponse("SQL_EXECUTION_FAILED",
                             ParsedError[outcome].message,
                             { << "retry_attempts", execution_retry_count' - 1 >> },
                             ParsedError[outcome].suggestions)
                        /\ phase' = "returned"
                        /\ UNCHANGED << agent_state, retry_state >>
    /\ UNCHANGED << etl, viz, db, node, steps, llm_calls, gen_prompt, handler_sql >>

\* retry_state = sql_generator_agent(retry_state)
Regenerate ==
    /\ phase = "regenerate"
    /\ \E outcome \in GeneratorOutcomes : retry_state' = sql_generator_agent(retry_state, outcome)
    /\ gen_prompt' = GeneratorPrompt(retry_state)
    /\ phase' = "revalidate"
    /\ UNCHANGED << etl, viz, db, agent_state, node, steps, llm_calls, handler_sql, execution_retry_count,
                    executions, outcomes, response >>

\* an exception leaves the handler: no response object is returned
Raised(exception) ==
    [kind |-> "raised", error_code |-> exception, question |-> "", suggestions |-> << >>]

\* the handler taking over the regenerated state without testing its verdict
Revalidate_unchecked ==
    /\ phase = "revalidate"
    /\ retry_state' = sql_validator_agent(retry_state)
    /\ IF /\ retry_state'.generated_sql # ""
          /\ retry_state'.generated_sql # handler_sql
       THEN /\ handler_sql' = retry_state'.generated_sql
            /\ agent_state' = retry_state'
            /\ execution_retry_count' = 0
       ELSE UNCHANGED << handler_sql, agent_state, execution_retry_count >>
    /\ \E cancelled \in BOOLEAN :
        IF cancelled
        THEN phase' = "returned" /\ response' = Raised("CancelledError")
        ELSE phase' = "execute" /\ response' = response
    /\ UNCHANGED << etl, viz, db, node, steps, llm_calls, gen_prompt, executions, outcomes >>

\* retry_state = sql_validator_agent(retry_state), then either the loop goes
\* on with the new SQL or the same SQL is executed once more; before the next
\* attempt the handler sleeps (0.3 s or 0.5 s), where the request may be
\* cancelled: asyncio.CancelledError is no Exception, no handler catches it
Revalidate ==
    /\ phase = "revalidate"
    /\ retry_state' = sql_validator_agent(retry_state)
    /\ IF /\ retry_state'.sql_validation_passed
          /\ retry_state'.generated_sql # ""
          /\ retry_state'.generated_sql # handler_sql
       THEN /\ handler_sql' = retry_state'.generated_sql
            /\ agent_state' = retry_state'
            /\ execution_retry_count' = 0
       ELSE UNCHANGED << handler_sql, agent_state, execution_retry_count >>
    /\ \E cancelled \in BOOLEAN :
        IF cancelled
        THEN phase' = "returned" /\ response' = Raised("CancelledError")
        ELSE phase' = "execute" /\ response' = response
    /\ UNCHANGED << etl, viz, db, node, steps, llm_calls, gen_prompt, executions, outcomes >>

\* AgentRunner.process_query and the handler's answer to its final state
Next ==
    \/ IntentAndSchema
    \/ GenerateSQL
    \/ ValidateSQL
    \/ ValidateResults
    \/ GraphReturns
    \/ GraphRaises
    \/ Respond

Spec == Init /\ [][Next]_vars

\* the whole request: the workflow, then the execution loop of the handler
NextApi ==
    \/ Next
    \/ Execute
    \/ Regenerate
    \/ Revalidate

ApiSpec == Init /\ [][NextApi]_vars

\* the workflow for every budget up to MaxRetriesBound: max_retries is a field
\* of the session that the validator and the router read (settings.py and
\* the tests name 2, create_initial_state sets 1)
InitBudget == InitWith(0..MaxRetriesBound)

BudgetSpec == InitBudget /\ [][Next]_vars

\* ------------------------------------------------------------------------
\* etl/scripts/pipeline/run_etl_pipeline.py : ETLPipeline.ingest_data, with
\* the UnifiedDataIngester of ingest_unified_data.py
\* ------------------------------------------------------------------------

\* the sources ingest_data goes through, in its order
EtlSources == << "toast", "doordash", "square" >>

\* ETLPipeline(dry_run).ingest_data(...) at `conn = get_db_connection()`:
\* at least one source is left after the files were looked up
InitEtl ==
    /\ \E dry_run \in BOOLEAN, skip_refresh \in BOOLEAN,
          files \in (SUBSET {"toast", "doordash", "square"}) \ {{}} :
         etl = [ pc |-> "setup_reference_data",
                 dry_run |-> dry_run,
                 skip_refresh |-> skip_refresh,
                 files |-> files,
                 source |-> 1,
                 pending |-> FALSE,   \* statements executed since the last commit
                 commits |-> << >>,   \* where a commit made statements durable
                 rollbacks |-> 0,
                 refreshed |-> FALSE,
                 closed |-> FALSE,
                 result |-> "none" ]
    /\ viz = NoVisualization
    /\ db = NoPool
    /\ agent_state = create_initial_state(QueryOf(0, 0, 0, FALSE, None))
    /\ node = "intent_and_schema"
    /\ steps = 0
    /\ phase = "etl"
    /\ llm_calls = 0
    /\ gen_prompt = NoPrompt
    /\ handler_sql = ""
    /\ execution_retry_count = 0
    /\ executions = 0
    /\ outcomes = << >>
    /\ retry_state = agent_state
    /\ response = NoResponse

\* db_conn.commit() at a place of the code: statements pending become durable
Commit(run, place) ==
    [run EXCEPT !.commits = IF run.pending THEN Append(@, place) ELSE @,
                !.pending = FALSE]

\* the except branch and the finally of ingest_data
EtlFails(run) ==
    [run EXCEPT !.pending = FALSE, !.rollbacks = @ + 1, !.closed = TRUE,
                !.result = "raised", !.pc = "done"]

\* the first source at or after index k that has a file, or the end
NextSource(run, k) ==
    IF \E j \in k..Len(EtlSources) : EtlSources[j] \in run.files
    THEN CHOOSE j \in k..Len(EtlSources) :
            /\ EtlSources[j] \in run.files
            /\ \A i \in k..(j - 1) : EtlSources[i] \notin run.files
    ELSE Len(EtlSources) + 1

\* ingester.setup_reference_data(): upserts of locations and mappings, then
\* self.db_conn.commit()
SetupReferenceData ==
    /\ phase = "etl"
    /\ etl.pc = "setup_reference_data"
    /\ \E ok \in BOOLEAN :
         etl' = IF ok
                THEN [Commit([etl EXCEPT !.pending = TRUE], "setup_reference_data")
                        EXCEPT !.pc = "ingest", !.source = NextSource(etl, 1)]
                ELSE EtlFails(etl)
    /\ UNCHANGED << viz, db, agent_state, node, steps, phase, llm_calls, gen_prompt,
                    handler_vars >>

\* ingester.ingest_toast_data / ingest_doordash_data / ingest_square_data:
\* inserts of the source's orders, then self.db_conn.commit()
IngestSource ==
    /\ phase = "etl"
    /\ etl.pc = "ingest"
    /\ etl.source <= Len(EtlSources)
    /\ \E ok \in BOOLEAN :
         etl' = IF ok
                THEN [Commit([etl EXCEPT !.pending = TRUE], EtlSources[etl.source])
                        EXCEPT !.source = NextSource(etl, etl.source + 1)]
                ELSE EtlFails(etl)
    /\ UNCHANGED << viz, db, agent_state, node, steps, phase, llm_calls, gen_prompt,
                    handler_vars >>

\* the end of ingest_data: commit and refresh, or rollback on a dry run
FinishIngestion ==
    /\ phase = "etl"
    /\ etl.pc = "ingest"
    /\ etl.source > Len(EtlSources)
    /\ etl' = IF ~etl.dry_run
              THEN [Commit(etl, "ingest_data")
                      EXCEPT !.refreshed = ~etl.skip_refresh,
                             !.closed = TRUE, !.result = "true", !.pc = "done"]
              ELSE [etl EXCEPT !.pending = FALSE, !.rollbacks = @ + 1,
                               !.closed = TRUE, !.result = "true", !.pc = "done"]
    /\ UNCHANGED << viz, db, agent_state, node, steps, phase, llm_calls, gen_prompt,
                    handler_vars >>

NextEtl == SetupReferenceData \/ IngestSource \/ FinishIngestion

EtlSpec == InitEtl /\ [][NextEtl]_vars

\* ------------------------------------------------------------------------
\* config/schema_knowledge.py : entity_mappings, and the _normalize_*
\* functions of agents/intent_and_schema_agent.py
\* ------------------------------------------------------------------------

\* SCHEMA_KNOWLEDGE["entity_mappings"]: per entity kind the (key, value) pairs
entity_mappings ==
    [ locations |->
        << <<"downtown", "DOWNTOWN">>, <<"airport", "AIRPORT">>, <<"mall", "MALL">>,
           <<"university", "UNIVERSITY">>, <<"uni", "UNIVERSITY">> >>,
      categories |->
        << <<"burgers", "Burgers">>, <<"burger", "Burgers">>, <<"sides", "Sides">>,
           <<"side", "Sides">>, <<"beverages", "Beverages">>, <<"beverage", "Beverages">>,
           <<"drinks", "Beverages">>, <<"drink", "Beverages">>,
           <<"sandwiches", "Sandwiches">>, <<"sandwich", "Sandwiches">>,
           <<"breakfast", "Breakfast">>, <<"salads", "Salads">>, <<"salad", "Salads">>,
           <<"entrees", "Entrees">>, <<"entree", "Entrees">>,
           <<"appetizers", "Appetizers">>, <<"appetizer", "Appetizers">>,
           <<"cocktails", "Cocktails">>, <<"cocktail", "Cocktails">>,
           <<"steaks", "Steaks">>, <<"steak", "Steaks">>, <<"alcohol", "Alcohol">>,
           <<"wraps", "Wraps">>, <<"wrap", "Wraps">>, <<"seafood", "Seafood">>,
           <<"pasta", "Pasta">>, <<"desserts", "Desserts">>, <<"dessert", "Desserts">>,
           <<"coffee", "Coffee">> >>,
      order_types |->
        << <<"dine in", "DINE_IN">>, <<"dine-in", "DINE_IN">>, <<"takeout", "TAKE_OUT">>,
           <<"take out", "TAKE_OUT">>, <<"take-out", "TAKE_OUT">>,
           <<"delivery", "DELIVERY">>, <<"pickup", "PICKUP">>, <<"pick up", "PICKUP">>,
           <<"pick-up", "PICKUP">> >>,
      sources |->
        << <<"toast", "toast">>, <<"doordash", "doordash">>, <<"door dash", "doordash">>,
           <<"square", "square">> >>,
      payment_types |->
        << <<"credit", "CREDIT">>, <<"credit card", "CREDIT">>, <<"debit", "DEBIT">>,
           <<"debit card", "DEBIT">>, <<"cash", "CASH">>, <<"apple pay", "WALLET">>,
           <<"google pay", "WALLET">>, <<"wallet", "WALLET">> >> ]

\* key in mappings, and mappings[key]
HasKey(mappings, key) == \E k \in 1..Len(mappings) : mappings[k][1] = key

Lookup(mappings, key) ==
    mappings[CHOOSE k \in 1..Len(mappings) : mappings[k][1] = key][2]

\* the location normaliser that keeps an unknown mention as it is written
_normalize_locations_keeping_case(locations) ==
    [k \in 1..Len(locations) |->
        IF HasKey(entity_mappings.locations, StrLower(locations[k]))
        THEN Lookup(entity_mappings.locations, StrLower(locations[k]))
        ELSE locations[k]]

_normalize_locations(locations) ==
    [k \in 1..Len(locations) |->
        IF HasKey(entity_mappings.locations, StrLower(locations[k]))
        THEN Lookup(entity_mappings.locations, StrLower(locations[k]))
        ELSE StrUpper(locations[k])]

_normalize_order_types(order_types) ==
    [k \in 1..Len(order_types) |->
        IF HasKey(entity_mappings.order_types, StrLower(order_types[k]))
        THEN Lookup(entity_mappings.order_types, StrLower(order_types[k]))
        ELSE StrUpper(order_types[k])]

_normalize_payment_types(payment_types) ==
    [k \in 1..Len(payment_types) |->
        IF HasKey(entity_mappings.payment_types, StrLower(payment_types[k]))
        THEN Lookup(entity_mappings.payment_types, StrLower(payment_types[k]))
        ELSE StrUpper(payment_types[k])]

_normalize_sources(sources) ==
    [k \in 1..Len(sources) |->
        IF HasKey(entity_mappings.sources, StrLower(sources[k]))
        THEN Lookup(entity_mappings.sources, StrLower(sources[k]))
        ELSE StrLower(sources[k])]

_normalize_categories(categories) ==
    [k \in 1..Len(categories) |->
        IF HasKey(entity_mappings.categories, StrLower(categories[k]))
        THEN Lookup(entity_mappings.categories, StrLower(categories[k]))
        ELSE categories[k]]

\* _extract_basic_entities: the payment keywords of the fast path
payment_keywords == << "credit", "debit", "cash", "card", "apple pay", "google pay" >>

\* _extract_basic_entities(query)["payment_types"]
_extract_basic_entities_payment_types(query) ==
    LET query_lower == StrLower(query)
        Found(payment) == Contains(query_lower, payment)
        found == SelectSeq(payment_keywords, Found)
    IN  [k \in 1..Len(found) |-> StrUpper(found[k])]

\* the entity lists of a classifier response, normalised as
\* intent_and_schema_agent builds ExtractedEntities from them
ExtractedEntities(entities) ==
    [ locations     |-> _normalize_locations(entities.locations),
      categories    |-> _normalize_categories(entities.categories),
      order_types   |-> _normalize_order_types(entities.order_types),
      payment_types |-> _normalize_payment_types(entities.payment_types),
      sources       |-> _normalize_sources(entities.sources) ]

\* mentions the reasoning service may return: keys of the mappings in several
\* spellings, canonical values, and names no mapping knows
Mentions ==
    { "downtown", "Downtown", "DOWNTOWN", "uni", "UNIVERSITY", "foo", "Foo", "FOO",
      "dine in", "Dine-In", "DINE_IN", "takeout", "TAKE_OUT", "apple pay", "WALLET",
      "credit card", "CREDIT", "door dash", "DoorDash", "doordash", "drinks",
      "Beverages", "burger", "Burgers" }

MentionLists ==
    UNION { [1..n -> Mentions] : n \in 1..MaxMentions }

\* the normalisers on their own: the entity lists of a response are
\* normalised, and the normalised lists are normalised again
InitNormalize ==
    /\ \E mentions \in MentionLists :
         agent_state =
             [ entities |-> [ locations |-> mentions, categories |-> mentions,
                              order_types |-> mentions, payment_types |-> mentions,
                              sources |-> mentions ],
               entities_extracted |-> [ locations |-> << >>, categories |-> << >>,
                                        order_types |-> << >>, payment_types |-> << >>,
                                        sources |-> << >> ] ]
    /\ node = "intent_and_schema"
    /\ steps = 0
    /\ phase = "normalize"
    /\ llm_calls = 0
    /\ gen_prompt = NoPrompt
    /\ handler_sql = ""
    /\ execution_retry_count = 0
    /\ executions = 0
    /\ outcomes = << >>
    /\ retry_state = agent_state
    /\ response = NoResponse
    /\ etl = NoPipeline
    /\ viz = NoVisualization
    /\ db = NoPool

Normalize ==
    /\ phase = "normalize"
    /\ steps < MaxNormalizations
    /\ agent_state' =
         [agent_state EXCEPT
            !.entities_extracted =
                ExtractedEntities(IF steps = 0 THEN agent_state.entities ELSE @)]
    /\ steps' = steps + 1
    /\ UNCHANGED << etl, viz, db, node, phase, llm_calls, gen_prompt, handler_vars >>

NextNormalize == Normalize

NormalizeSpec == InitNormalize /\ [][NextNormalize]_vars

\* sql_validator_agent on its own: a session state holding any of the
\* validator texts, any schema selection and any retry counters is validated,
\* and validated again
InitValidator ==
    /\ \E t \in ValidatorTexts, tables \in TableLists, time_range \in TimeRanges,
          u \in BOOLEAN, m \in 0..MaxRetriesBound :
        \E r \in 0..m :
          agent_state =
              [create_initial_state(QueryOf(0, 0, 0, FALSE, None))
                 EXCEPT !.generated_sql = t,
                        !.relevant_tables = tables,
                        !.time_range = time_range,
                        !.use_views = u,
                        !.max_retries = m,
                        !.retry_count = r]
    /\ node = "validate_sql"
    /\ steps = 0
    /\ phase = "validator"
    /\ llm_calls = 0
    /\ gen_prompt = NoPrompt
    /\ handler_sql = ""
    /\ execution_retry_count = 0
    /\ executions = 0
    /\ outcomes = << >>
    /\ retry_state = agent_state
    /\ response = NoResponse
    /\ etl = NoPipeline
    /\ viz = NoVisualization
    /\ db = NoPool

Validate ==
    /\ phase = "validator"
    /\ steps < MaxValidations
    /\ agent_state' = sql_validator_agent(agent_state)
    /\ steps' = steps + 1
    /\ UNCHANGED << etl, viz, db, node, phase, llm_calls, gen_prompt, handler_vars >>

NextValidator == Validate

ValidatorSpec == InitValidator /\ [][NextValidator]_vars

\* ------------------------------------------------------------------------
\* rule_based_intent_detection on its own
\* ------------------------------------------------------------------------

\* largest number of pattern matches of one intent
MaxPatternScore == 5

\* largest number of category names in one query
MaxCategoryNames == 2

\* queries by their pattern matches: three intents take every number of
\* matches, the others match nothing; a category name is also a match of the
\* last CATEGORY_ANALYSIS pattern
ScoreQueries ==
    UNION { { [ matches |-> [i \in 1..Len(PatternIntents) |->
                    IF PatternIntents[i] = "sales_analysis" THEN s
                    ELSE IF PatternIntents[i] = "order_type_analysis" THEN o
                    ELSE IF PatternIntents[i] = "category_analysis" THEN c
                    ELSE 0],
                category_mentions |-> m,
                base_keyword |-> FALSE,
                hour_keyword |-> FALSE,
                payment_keyword |-> FALSE,
                relative |-> None ]
              : s \in 0..MaxPatternScore, o \in 0..MaxPatternScore,
                m \in 0..Min(MaxCategoryNames, c) }
            : c \in 0..MaxPatternScore }

InitClassify ==
    /\ \E q \in ScoreQueries :
         agent_state = [ user_query |-> q, rule_result |-> << >>, called |-> FALSE ]
    /\ node = "intent_and_schema"
    /\ steps = 0
    /\ phase = "classify"
    /\ llm_calls = 0
    /\ gen_prompt = NoPrompt
    /\ handler_sql = ""
    /\ execution_retry_count = 0
    /\ executions = 0
    /\ outcomes = << >>
    /\ retry_state = agent_state
    /\ response = NoResponse
    /\ etl = NoPipeline
    /\ viz = NoVisualization
    /\ db = NoPool

Classify ==
    /\ phase = "classify"
    /\ ~agent_state.called
    /\ agent_state' =
         [agent_state EXCEPT
            !.rule_result = rule_based_intent_detection(agent_state.user_query),
            !.called = TRUE]
    /\ steps' = steps + 1
    /\ UNCHANGED << etl, viz, db, node, phase, llm_calls, gen_prompt, handler_vars >>

NextClassify == Classify

ClassifySpec == InitClassify /\ [][NextClassify]_vars

\* ------------------------------------------------------------------------
\* _fallback_schema_analysis on its own
\* ------------------------------------------------------------------------

\* queries by the keyword tests of the fallback
FallbackQueries ==
    { [QueryOf(0, 0, 0, b, None) EXCEPT !.hour_keyword = h, !.payment_keyword = p] :
        b \in BOOLEAN, h \in BOOLEAN, p \in BOOLEAN }

\* a session of any intent on which the fallback is applied
InitFallback ==
    /\ \E q \in FallbackQueries, i \in QueryIntent :
         agent_state = [create_initial_state(q) EXCEPT !.query_intent = i]
    /\ node = "intent_and_schema"
    /\ steps = 0
    /\ phase = "fallback"
    /\ llm_calls = 0
    /\ gen_prompt = NoPrompt
    /\ handler_sql = ""
    /\ execution_retry_count = 0
    /\ executions = 0
    /\ outcomes = << >>
    /\ retry_state = agent_state
    /\ response = NoResponse
    /\ etl = NoPipeline
    /\ viz = NoVisualization
    /\ db = NoPool

Fallback ==
    /\ phase = "fallback"
    /\ steps = 0
    /\ agent_state' = _fallback_schema_analysis(agent_state)
    /\ steps' = steps + 1
    /\ UNCHANGED << etl, viz, db, node, phase, llm_calls, gen_prompt, handler_vars >>

NextFallback == Fallback

FallbackSpec == InitFallback /\ [][NextFallback]_vars

\* ------------------------------------------------------------------------
\* utils/viz_cache.py : VisualizationCache
\* ------------------------------------------------------------------------

\* a dict as a set of << key, value >> pairs
DictHas(d, key) == \E kv \in d : kv[1] = key

DictGet(d, key) == (CHOOSE kv \in d : kv[1] = key)[2]

DictDel(d, key) == {kv \in d : kv[1] # key}

DictSet(d, key, value) == DictDel(d, key) \cup { << key, value >> }

CACHE_TTL_SECONDS == 3600

\* seconds the clock advances between two calls, and how often it does
ClockStep == 1800

MaxTicks == 3

QueryIds == {"q1", "q2"}

Statuses == {"pending", "ready", "error", "not_applicable"}

\* the stored visualization of a query_id (type, config, chart_js_config)
ChartOf(query_id) == "chart of " \o query_id

\* store(query_id, viz_type, viz_config, chart_js_config) at time now
store(cache, query_id, now) ==
    [cache EXCEPT
        !._viz_cache = DictSet(@, query_id, ChartOf(query_id)),
        !._cache_metadata = DictSet(@, query_id, [created_at |-> now, status |-> "ready"])]

\* get(query_id) at time now: what it returns (<< >> for None) or raises, and
\* the dicts after
get(cache, query_id, now) ==
    IF /\ DictHas(cache._cache_metadata, query_id)
       /\ now - DictGet(cache._cache_metadata, query_id).created_at > CACHE_TTL_SECONDS
    THEN IF DictHas(cache._viz_cache, query_id)
         THEN [ cache |-> [cache EXCEPT !._viz_cache = DictDel(@, query_id),
                                        !._cache_metadata = DictDel(@, query_id)],
                returned |-> << >>, raised |-> None ]
         \* del _viz_cache[query_id] of a key the dict does not hold
         ELSE [ cache |-> cache, returned |-> << >>, raised |-> "KeyError" ]
    ELSE [ cache |-> cache,
           returned |-> IF DictHas(cache._viz_cache, query_id)
                        THEN << DictGet(cache._viz_cache, query_id) >> ELSE << >>,
           raised |-> None ]

\* set_status(query_id, status) at time now
set_status(cache, query_id, status, now) ==
    [cache EXCEPT
        !._cache_metadata =
            IF DictHas(@, query_id)
            THEN DictSet(@, query_id, [DictGet(@, query_id) EXCEPT !.status = status])
            ELSE DictSet(@, query_id, [status |-> status, created_at |-> now])]

\* get_status(query_id)
get_status(cache, query_id) ==
    IF DictHas(cache._cache_metadata, query_id)
    THEN DictGet(cache._cache_metadata, query_id).status
    ELSE "pending"

\* clear(query_id), clear() when query_id is None
clear(cache, query_id) ==
    IF query_id # None
    THEN [cache EXCEPT !._viz_cache = DictDel(@, query_id),
                       !._cache_metadata = DictDel(@, query_id)]
    ELSE [cache EXCEPT !._viz_cache = { }, !._cache_metadata = { }]

\* the cache on its own: calls of its methods in any order while time passes;
\* each method holds _cache_lock for its whole body, so a call is one step
\* a returned value is << value >>, << >> stands for None
NoCall == [op |-> "none", query_id |-> None, returned |-> << >>, raised |-> None]

InitCache ==
    /\ viz = [ _viz_cache |-> { }, _cache_metadata |-> { }, pc |-> "cache",
               now |-> 0, last |-> NoCall ]
    /\ db = NoPool
    /\ etl = NoPipeline
    /\ agent_state = create_initial_state(QueryOf(0, 0, 0, FALSE, None))
    /\ node = "intent_and_schema"
    /\ steps = 0
    /\ phase = "viz_cache"
    /\ llm_calls = 0
    /\ gen_prompt = NoPrompt
    /\ handler_sql = ""
    /\ execution_retry_count = 0
    /\ executions = 0
    /\ outcomes = << >>
    /\ retry_state = agent_state
    /\ response = NoResponse

cache_frame ==
    << db, etl, agent_state, node, steps, phase, llm_calls, gen_prompt, handler_vars >>

CacheStore(query_id) ==
    /\ phase = "viz_cache"
    /\ viz' = [store(viz, query_id, viz.now) EXCEPT
                  !.last = [op |-> "store", query_id |-> query_id,
                            returned |-> << >>, raised |-> None]]
    /\ UNCHANGED cache_frame

CacheGet(query_id) ==
    /\ phase = "viz_cache"
    /\ LET call == get(viz, query_id, viz.now)
       IN  viz' = [call.cache EXCEPT
                      !.last = [op |-> "get", query_id |-> query_id,
                                returned |-> call.returned, raised |-> call.raised]]
    /\ UNCHANGED cache_frame

CacheSetStatus(query_id, status) ==
    /\ phase = "viz_cache"
    /\ viz' = [set_status(viz, query_id, status, viz.now) EXCEPT
                  !.last = [op |-> "set_status", query_id |-> query_id,
                            returned |-> << >>, raised |-> None]]
    /\ UNCHANGED cache_frame

CacheGetStatus(query_id) ==
    /\ phase = "viz_cache"
    /\ viz' = [viz EXCEPT
                  !.last = [op |-> "get_status", query_id |-> query_id,
                            returned |-> << get_status(viz, query_id) >>, raised |-> None]]
    /\ UNCHANGED cache_frame

CacheClear(query_id) ==
    /\ phase = "viz_cache"
    /\ viz' = [clear(viz, query_id) EXCEPT
                  !.last = [op |-> "clear", query_id |-> query_id,
                            returned |-> << >>, raised |-> None]]
    /\ UNCHANGED cache_frame

\* time.time() moves on
Tick ==
    /\ phase = "viz_cache"
    /\ viz.now < MaxTicks * ClockStep
    /\ viz' = [viz EXCEPT !.now = @ + ClockStep]
    /\ UNCHANGED cache_frame

NextCache ==
    \/ \E query_id \in QueryIds : CacheStore(query_id)
    \/ \E query_id \in QueryIds : CacheGet(query_id)
    \/ \E query_id \in QueryIds, status \in Statuses : CacheSetStatus(query_id, status)
    \/ \E query_id \in QueryIds : CacheGetStatus(query_id)
    \/ \E query_id \in QueryIds \cup {None} : CacheClear(query_id)
    \/ Tick

CacheSpec == InitCache /\ [][NextCache]_vars

\* ------------------------------------------------------------------------
\* main.py : process_query.generate_stream, generate_visualization_async,
\* get_visualization
\* ------------------------------------------------------------------------

\* a streaming request: where generate_stream is suspended (the event it
\* yielded last), and where its background visualization task is
NewRequest == [pc |-> "start", task |-> "none"]

\* the yields of generate_stream: the response stream waits there for the
\* client to take the event
Yields ==
    { "results_sent", "answer_sent", "pending_sent", "not_applicable_sent",
      "complete_sent", "error_sent" }

\* outcomes of generate_visualization_async: the agent selects no chart, a
\* chart is built, chart building raises, the agent raises
VisualizationOutcomes == {"none", "chart", "chart_error", "agent_error"}

InitStream ==
    /\ viz = [ _viz_cache |-> { }, _cache_metadata |-> { }, pc |-> "stream", now |-> 0,
               requests |-> [q \in QueryIds |-> NewRequest],
               polled |-> [q \in QueryIds |-> "none"] ]
    /\ db = NoPool
    /\ etl = NoPipeline
    /\ agent_state = create_initial_state(QueryOf(0, 0, 0, FALSE, None))
    /\ node = "intent_and_schema"
    /\ steps = 0
    /\ phase = "stream"
    /\ llm_calls = 0
    /\ gen_prompt = NoPrompt
    /\ handler_sql = ""
    /\ execution_retry_count = 0
    /\ executions = 0
    /\ outcomes = << >>
    /\ retry_state = agent_state
    /\ response = NoResponse

\* Step 1: the results event
StreamResults(query_id) ==
    /\ phase = "stream"
    /\ viz.requests[query_id].pc = "start"
    /\ viz' = [viz EXCEPT !.requests[query_id].pc = "results_sent"]
    /\ UNCHANGED cache_frame

\* Step 2: answer_agent and the answer chunks; an exception in the generator
\* is answered with the error event
StreamAnswer(query_id) ==
    /\ phase = "stream"
    /\ viz.requests[query_id].pc = "results_sent"
    /\ \E raises \in BOOLEAN :
         viz' = [viz EXCEPT !.requests[query_id].pc =
                                IF raises THEN "error_sent" ELSE "answer_sent"]
    /\ UNCHANGED cache_frame

\* Step 3: the status is set, then the visualization_available event is
\* yielded; the task is not started yet
StreamVisualization(query_id) ==
    /\ phase = "stream"
    /\ viz.requests[query_id].pc = "answer_sent"
    /\ \E viz_applicable \in BOOLEAN :
         viz' = IF viz_applicable
                THEN [set_status(viz, query_id, "pending", viz.now)
                        EXCEPT !.requests[query_id].pc = "pending_sent"]
                ELSE [set_status(viz, query_id, "not_applicable", viz.now)
                        EXCEPT !.requests[query_id].pc = "not_applicable_sent"]
    /\ UNCHANGED cache_frame

\* resumed after visualization_available: asyncio.create_task when the
\* visualization is applicable, then Step 4, the complete event
StreamComplete(query_id) ==
    /\ phase = "stream"
    /\ viz.requests[query_id].pc \in {"pending_sent", "not_applicable_sent"}
    /\ viz' = [viz EXCEPT
                  !.requests[query_id].task =
                      IF viz.requests[query_id].pc = "pending_sent" THEN "scheduled" ELSE @,
                  !.requests[query_id].pc = "complete_sent"]
    /\ UNCHANGED cache_frame

\* resumed after the last event: the generator returns
StreamEnd(query_id) ==
    /\ phase = "stream"
    /\ viz.requests[query_id].pc \in {"complete_sent", "error_sent"}
    /\ viz' = [viz EXCEPT !.requests[query_id].pc = "done"]
    /\ UNCHANGED cache_frame

\* the client stops consuming the stream: the generator is not resumed after
\* the yield it is suspended at, it is closed there
Disconnect(query_id) ==
    /\ phase = "stream"
    /\ viz.requests[query_id].pc \in Yields
    /\ viz' = [viz EXCEPT !.requests[query_id].pc = "closed"]
    /\ UNCHANGED cache_frame

\* generate_visualization_async up to its first cache call
TaskRun(query_id) ==
    /\ phase = "stream"
    /\ viz.requests[query_id].task = "scheduled"
    /\ \E outcome \in VisualizationOutcomes :
         viz' = IF outcome = "none"
                THEN [set_status(viz, query_id, "not_applicable", viz.now)
                        EXCEPT !.requests[query_id].task = "done"]
                ELSE IF outcome = "chart"
                THEN [store(viz, query_id, viz.now)
                        EXCEPT !.requests[query_id].task = "stored"]
                ELSE [set_status(viz, query_id, "error", viz.now)
                        EXCEPT !.requests[query_id].task = "done"]
    /\ UNCHANGED cache_frame

\* await VisualizationCache.set_status(query_id, "ready") after the store
TaskReady(query_id) ==
    /\ phase = "stream"
    /\ viz.requests[query_id].task = "stored"
    /\ viz' = [set_status(viz, query_id, "ready", viz.now)
                 EXCEPT !.requests[query_id].task = "done"]
    /\ UNCHANGED cache_frame

\* get_visualization(query_id): what the endpoint answers. The status is
\* read before the data; without data the history table is asked, which on
\* this path holds no chart_js_config unless the cache held the chart first
get_visualization(query_id) ==
    /\ phase = "stream"
    /\ LET status == get_status(viz, query_id)
           call == get(viz, query_id, viz.now)
       IN  viz' = [call.cache EXCEPT
                      !.polled[query_id] =
                          IF call.raised # None THEN call.raised
                          ELSE IF status \in {"not_applicable", "pending", "error"}
                                  /\ call.returned = << >>
                          THEN status
                          ELSE IF call.returned = << >> THEN "not_found"
                          ELSE "visualization"]
    /\ UNCHANGED cache_frame

StreamStep(query_id) ==
    \/ StreamResults(query_id)
    \/ StreamAnswer(query_id)
    \/ StreamVisualization(query_id)
    \/ StreamComplete(query_id)
    \/ StreamEnd(query_id)

TaskStep(query_id) ==
    \/ TaskRun(query_id)
    \/ TaskReady(query_id)

NextStream ==
    \E query_id \in QueryIds :
        \/ StreamStep(query_id)
        \/ TaskStep(query_id)
        \/ Disconnect(query_id)
        \/ get_visualization(query_id)

StreamSpec == InitStream /\ [][NextStream]_vars

\* the event loop runs every task that can run, and the response stream
\* resumes the generator as long as the client takes the events
StreamLiveSpec ==
    /\ StreamSpec
    /\ \A query_id \in QueryIds :
          WF_vars(StreamStep(query_id)) /\ WF_vars(TaskStep(query_id))

\* ------------------------------------------------------------------------
\* database.py : SupabasePool
\* ------------------------------------------------------------------------

\* coroutines that call SupabasePool.connect or SupabasePool.execute_query
Callers == {"c1", "c2", "c3"}

PoolCalls == {"connect", "execute_query"}

\* a caller: the method it called, where it is in it, and the pool its query
\* acquired a connection from
NoCaller == [op |-> "none", pc |-> "idle", used |-> << >>]

\* pool: << >> for None or << n >>, the n-th pool asyncpg.create_pool returned;
\* lock: None or the caller holding cls._lock; failed: the pools whose
\* connection test raised
InitPool ==
    /\ db = [ pool |-> << >>, pc |-> "pool", lock |-> None, created |-> 0,
              failed |-> { }, callers |-> [c \in Callers |-> NoCaller] ]
    /\ viz = NoVisualization
    /\ etl = NoPipeline
    /\ agent_state = create_initial_state(QueryOf(0, 0, 0, FALSE, None))
    /\ node = "intent_and_schema"
    /\ steps = 0
    /\ phase = "pool"
    /\ llm_calls = 0
    /\ gen_prompt = NoPrompt
    /\ handler_sql = ""
    /\ execution_retry_count = 0
    /\ executions = 0
    /\ outcomes = << >>
    /\ retry_state = agent_state
    /\ response = NoResponse

pool_frame ==
    << viz, etl, agent_state, node, steps, phase, llm_calls, gen_prompt, handler_vars >>

\* where a caller goes on when its connect() returns, and when it raises
\* (_ensure_connected turns the exception into a RuntimeError)
AfterConnect(caller) == IF caller.op = "connect" THEN "done" ELSE "acquire"

\* a coroutine calls connect() or execute_query(sql); execute_query connects
\* only when it finds pool None
Call(c, op) ==
    /\ phase = "pool"
    /\ db.callers[c].pc = "idle"
    /\ db' = [db EXCEPT !.callers[c].op = op,
                        !.callers[c].pc = IF op = "connect" \/ db.pool = << >>
                                          THEN "connect" ELSE "acquire"]
    /\ UNCHANGED pool_frame

\* connect(): the lock is taken; with a pool in place the call returns, else
\* the database URL is read (it may raise ValueError) and create_pool awaited
ConnectEnter(c) ==
    /\ phase = "pool"
    /\ db.callers[c].pc = "connect"
    /\ db.lock = None
    /\ \E configured \in BOOLEAN :
         db' = IF db.pool # << >>
               THEN [db EXCEPT !.callers[c].pc = AfterConnect(db.callers[c])]
               ELSE IF ~configured
               THEN [db EXCEPT !.callers[c].pc = "raised"]
               ELSE [db EXCEPT !.lock = c, !.callers[c].pc = "create_pool"]
    /\ UNCHANGED pool_frame

\* cls.pool = await asyncpg.create_pool(...): a pool, or an exception
CreatePool(c) ==
    /\ phase = "pool"
    /\ db.callers[c].pc = "create_pool"
    /\ \E created \in BOOLEAN :
         db' = IF created
               THEN [db EXCEPT !.pool = << db.created + 1 >>,
                               !.created = @ + 1,
                               !.callers[c].pc = "test"]
               ELSE [db EXCEPT !.lock = None, !.callers[c].pc = "raised"]
    /\ UNCHANGED pool_frame

\* await cls._test_connection(): the lock is released when it returns and
\* when it raises
TestConnection(c) ==
    /\ phase = "pool"
    /\ db.callers[c].pc = "test"
    /\ \E passed \in BOOLEAN :
         db' = IF passed
               THEN [db EXCEPT !.lock = None,
                               !.callers[c].pc = AfterConnect(db.callers[c])]
               ELSE [db EXCEPT !.lock = None,
                               !.failed = @ \cup {db.pool[1]},
                               !.callers[c].pc = "raised"]
    /\ UNCHANGED pool_frame

\* execute_query: async with cls.pool.acquire() as conn, and the query
Acquire(c) ==
    /\ phase = "pool"
    /\ db.callers[c].pc = "acquire"
    /\ db' = [db EXCEPT !.callers[c].used = db.pool,
                        !.callers[c].pc = "done"]
    /\ UNCHANGED pool_frame

NextPool ==
    \E c \in Callers :
        \/ \E op \in PoolCalls : Call(c, op)
        \/ ConnectEnter(c)
        \/ CreatePool(c)
        \/ TestConnection(c)
        \/ Acquire(c)

PoolSpec == InitPool /\ [][NextPool]_vars

\* ------------------------------------------------------------------------
\* Properties
\* ------------------------------------------------------------------------

\* number of visits of a stage recorded in agent_trace
StageVisits(agent_trace, stage) == Len(SelectSeq(agent_trace, LAMBDA s : s = stage))

\* the rule-based classifier's answer for the session's query
RuleResult == rule_based_intent_detection(agent_state.user_query)

\* C1: every session reaches one of the workflow's terminals (Clarify, Error
\* or Done) after finitely many stage visits, whatever the generator returns:
\* the run of the graph always arrives at END through one of its edges and is
\* never cut off by the framework because it used up its supersteps with
\* stages still to run.
C1_ReachesTerminal ==
    ~(phase = "graph" /\ node # END /\ steps = RecursionLimit)

\* C2: in every reachable state of a session retry_count <= max_retries and
\* result_retry_count <= 1.
C2_RetryBounds ==
    /\ agent_state.retry_count <= agent_state.max_retries
    /\ agent_state.result_retry_count <= 1

\* a failed validation has used up a positive budget and the session ended
C2_BudgetSpent ==
    /\ node = END
    /\ agent_state.max_retries >= 1
    /\ agent_state.retry_count = agent_state.max_retries
    /\ ~agent_state.sql_validation_passed
    /\ StageVisits(agent_state.agent_trace, "sql_validator") >= 1

C3_Denylist ==
    { "DROP", "DELETE", "UPDATE", "INSERT", "ALTER", "CREATE", "TRUNCATE",
      "GRANT", "REVOKE", "EXECUTE", "EXEC", "MERGE", "REPLACE" }

\* the texts of the catalog that hold a denylisted keyword as a whole word
C3_MutatingTexts ==
    { t \in SqlCatalog :
        \E keyword \in C3_Denylist : SearchWholeWord(StrUpper(t), keyword) }

\* C3: no session ends in Done (the graph finished with sql_validation_passed
\* true) with a generated SQL that holds a denylisted keyword as a whole word,
\* in any letter case.
C3_NoMutationReachesDone ==
    (node = END /\ agent_state.sql_validation_passed)
    => agent_state.generated_sql \notin C3_MutatingTexts

\* a session is Done with the SQL of a regeneration
C3_DoneAfterRetry ==
    /\ node = END
    /\ agent_state.sql_validation_passed
    /\ agent_state.generated_sql # ""
    /\ agent_state.retry_count >= 1
    /\ StageVisits(agent_state.agent_trace, "sql_generator") >= 2

\* C4: after ValidateSQL the session goes on towards Done if validation
\* passed; back to GenerateSQL, with retry_count one higher than on entry, if
\* it did not pass and retry_count on entry was below max_retries; to Error
\* otherwise.
C4_ValidateRouting ==
    [][ValidateSQL =>
        IF agent_state'.sql_validation_passed
        THEN node' = "validate_results"
        ELSE IF agent_state.retry_count < agent_state.max_retries
        THEN /\ node' = "generate_sql"
             /\ agent_state'.retry_count = agent_state.retry_count + 1
        ELSE node' = END]_vars

\* C5: with the default budget, when the first SQL omits the /100 conversion
\* and the void filter, the validator reports these 2 errors and the session
\* goes back to GenerateSQL once; a session that ends in Error after that
\* first SQL has the trace classify, generate, validate, generate, validate.
C5_ScenarioB ==
    /\ (/\ phase = "graph"
        /\ agent_state.max_retries = DefaultMaxRetries
        /\ agent_state.generated_sql = NoConversionNoVoidSql
        /\ agent_state.agent_trace =
               << "intent_and_schema", "sql_generator", "sql_validator" >>)
       => /\ agent_state.sql_errors = << CentsMessage, VoidedMessage >>
          /\ node = "generate_sql"
    /\ (/\ node = END
        /\ agent_state.max_retries = DefaultMaxRetries
        /\ ~agent_state.needs_clarification
        /\ ~agent_state.sql_validation_passed
        /\ agent_state.generated_sql = NoConversionNoVoidSql)
       => agent_state.agent_trace =
              << "intent_and_schema", "sql_generator", "sql_validator",
                 "sql_generator", "sql_validator" >>

\* C6: at every stage boundary, those of the handler's regeneration
\* included, sql_validation_passed is never true while sql_errors is
\* non-empty; and SQLValidator.validate answers is_valid exactly when its
\* error list is empty.
C6_PassedMeansNoErrors ==
    /\ agent_state.sql_validation_passed => Len(agent_state.sql_errors) = 0
    /\ retry_state.sql_validation_passed => Len(retry_state.sql_errors) = 0
    /\ \A t \in SqlCatalog :
           ValidationResult[t].is_valid <=> (Len(ValidationResult[t].errors) = 0)

\* C7: after ClassifyIntentAndSchema the session ends at Clarify when
\* needs_clarification is true, and no other stage is ever visited; otherwise
\* it goes on to GenerateSQL.
C7_ClarifyRouting ==
    /\ (phase = "graph" /\ agent_state.agent_trace = << "intent_and_schema" >>)
       => node = IF agent_state.needs_clarification THEN END ELSE "generate_sql"
    /\ agent_state.needs_clarification
       => agent_state.agent_trace = << "intent_and_schema" >>

\* the caller got a clarification
C7_Clarified ==
    /\ phase = "returned"
    /\ response.kind = "clarification"
    /\ agent_state.needs_clarification
    /\ agent_state.agent_trace = << "intent_and_schema" >>

\* C8: on the semantic path, for every parsed response of the reasoning
\* service, needs_clarification is (the response's flag, false if missing) or
\* (the response's confidence, 0.0 if missing, below 0.6).
C8_NeedsClarification ==
    [][\A outcome \in ClassifierOutcomes :
          (/\ IntentAndSchema
           /\ llm_calls' = llm_calls + 1
           /\ outcome.kind = "parsed"
           /\ agent_state' = intent_and_schema_agent(agent_state, outcome))
          => agent_state'.needs_clarification =
                 (\/ (outcome.result.needs_clarification # << >>
                      /\ outcome.result.needs_clarification[1])
                  \/ (IF outcome.result.confidence = << >> THEN 0
                      ELSE outcome.result.confidence[1]) < 60)]_vars

\* a confident response that carries the flag asks for clarification
C8_FlaggedConfident ==
    /\ llm_calls = 1
    /\ agent_state.intent_confidence = 90
    /\ agent_state.needs_clarification

\* C9: when the semantic classifier reports confidence 0.5, the session ends
\* at Clarify and the clarification returned to the caller carries a
\* non-empty question and at most 3 suggestions.
C9_ClarificationAnswer ==
    (phase = "returned" /\ llm_calls = 1 /\ agent_state.intent_confidence = 50)
    => /\ response.kind = "clarification"
       /\ response.question # ""
       /\ Len(response.suggestions) <= 3

\* C10: the reasoning service is invoked during ClassifyIntentAndSchema
\* exactly when the rule-based classifier returned None or a confidence
\* below 0.75.
C10_ServiceInvoked ==
    llm_calls = IF /\ Len(agent_state.agent_trace) > 0
                   /\ (RuleResult = << >> \/ RuleResult[2] < 75)
                THEN 1 ELSE 0

\* the fast path was taken at confidence exactly 0.75
C10_FastPathTaken ==
    /\ Len(agent_state.agent_trace) > 0
    /\ RuleResult # << >>
    /\ RuleResult[2] = 75
    /\ llm_calls = 0

\* states handed to should_retry_sql: every verdict of a result check, with
\* and without a corrected statement, at every count of corrections
RouterInputs ==
    { [create_initial_state(q) EXCEPT !.sql_validation_passed = TRUE,
                                      !.results_valid = v,
                                      !.sql_corrected = c,
                                      !.result_retry_count = n] :
      q \in Queries, v \in BOOLEAN, c \in BOOLEAN, n \in 0..MaxResultRetryCount }

\* should_retry_sql on RouterInputs: "retry" exactly when the results are
\* invalid, a corrected statement is there and no correction was tried, and
\* then sql_validation_passed is cleared and result_retry_count is one higher
C11_RouterRule ==
    \A s \in RouterInputs :
        LET routed == should_retry_sql(s)
            retry == ~s.results_valid /\ s.sql_corrected /\ s.result_retry_count < 1
        IN  /\ routed.route = IF retry THEN "retry" ELSE "viz"
            /\ retry => /\ ~routed.state.sql_validation_passed
                        /\ routed.state.result_retry_count = s.result_retry_count + 1
                        /\ routed.state = [s EXCEPT !.sql_validation_passed = FALSE,
                                                    !.result_retry_count = @ + 1]
            /\ ~retry => routed.state = s

IsPrefix(s, t) == Len(s) <= Len(t) /\ SubSeq(t, 1, Len(s)) = s

Regenerations(agent_trace) ==
    Cardinality({ i \in 1..Len(agent_trace) :
                    /\ agent_trace[i] = "sql_generator"
                    /\ \E j \in 1..(i - 1) : agent_trace[j] = "result_validator" })

\* C13: after an execution failure the handler makes at most one SQL
\* regeneration attempt per request, and at most three execution attempts
\* (the validated statement, its one retry or the regenerated statement, and
\* that one's retry) before it returns results or an error.
C13_OneRegeneration ==
    /\ Regenerations(retry_state.agent_trace) <= 1
    /\ executions <= max_execution_retries + 2

\* C14: when the execution engine times out on every attempt of a request,
\* the error the request ends with has the timeout kind QUERY_TIMEOUT, not the
\* generic execution-failure or internal-error kind.
C14_TimeoutKind ==
    (/\ phase = "returned"
     /\ response.kind = "error"
     /\ Len(outcomes) > 0
     /\ \A i \in 1..Len(outcomes) : outcomes[i] = "timeout")
    => response.error_code = "QUERY_TIMEOUT"

\* C15: handling an execution timeout or failure in the handler (execution
\* retries and the regeneration they trigger) never changes the retry_count
\* of the session state the request goes on to use.
C15_RetryCountKept ==
    [][(Execute \/ Regenerate \/ Revalidate)
       => agent_state'.retry_count = agent_state.retry_count]_vars

\* the handler goes on with a regenerated statement after a timeout
C15_RegeneratedAfterTimeout ==
    /\ phase = "execute"
    /\ Len(outcomes) > 0
    /\ outcomes[Len(outcomes)] = "timeout"
    /\ Regenerations(agent_state.agent_trace) >= 1
    /\ agent_state.generated_sql = handler_sql

\* C16: a request cancelled at a suspension point (during an SQL execution,
\* or during the sleep before the next execution attempt) ends with the error
\* response QUERY_CANCELLED, and nothing runs after the cancellation.
C16_CancellationAnswer ==
    (/\ phase = "returned"
     /\ \/ response.kind = "raised"
        \/ (Len(outcomes) > 0 /\ outcomes[Len(outcomes)] = "cancelled"))
    => /\ response.kind = "error"
       /\ response.error_code = "QUERY_CANCELLED"
       /\ ~ENABLED (Execute \/ Regenerate \/ Revalidate)

\* C17: an unexpected exception raised inside a stage is caught and the
\* session ends in the Error terminal, not in Clarify and not in a further
\* retry loop: after the classifier's round trip raised, the workflow ends
\* without asking for clarification and the caller gets an error; after the
\* generator's round trip raised, the validation that follows ends the workflow.
C17_StageExceptions ==
    [][/\ (/\ IntentAndSchema
           /\ ~FastPath(RuleResult)
           /\ agent_state' = intent_and_schema_agent(agent_state, [kind |-> "exception"]))
          => (node' = END /\ ~agent_state'.needs_clarification)
       /\ (Respond /\ agent_state.clarification_question = ServiceErrorQuestion)
          => response'.kind = "error"
       /\ (ValidateSQL /\ agent_state.sql_errors = << ServiceFailureMessage >>)
          => node' = END]_vars

\* the base tables that store amounts in cents: the three order, item and
\* payment tables, and the table of item modifiers
MinorUnitTables ==
    << "unified_orders", "unified_order_items", "unified_payments",
       "unified_order_item_modifiers" >>

\* the validator texts in which a *_cents column of a base table appears
\* and no /100 pattern does
C18_Unconverted ==
    { t \in ValidatorTexts :
        /\ \E k \in 1..Len(CENTS_COLUMNS) : Contains(StrLower(t), CENTS_COLUMNS[k])
        /\ \E k \in 1..Len(MinorUnitTables) : Contains(StrLower(t), MinorUnitTables[k])
        /\ ~Contains(t, "/100") /\ ~Contains(t, "/ 100") }

\* members of a sequence
Range(s) == { s[k] : k \in 1..Len(s) }

\* C18: the validator reports the unit-conversion error, and fails, exactly
\* for the texts where a *_cents column of a base table appears without a
\* /100 pattern: SUM(total_cents) over unified_orders fails, and the same
\* query with / 100.0 and voided = FALSE passes.
C18_UnitConversion ==
    (phase = "validator" /\ steps >= 1)
    => /\ (CentsMessage \in Range(agent_state.sql_errors))
          <=> (agent_state.generated_sql \in C18_Unconverted)
       /\ agent_state.generated_sql \in C18_Unconverted
          => ~agent_state.sql_validation_passed
       /\ agent_state.generated_sql \in {NoConversionSql, NoConversionNoVoidSql, UpperCaseSql}
          => CentsMessage \in Range(agent_state.sql_errors)
       /\ agent_state.generated_sql \in {ConvertedSql, SpacedConversionSql}
          => agent_state.sql_validation_passed

\* the validator texts that reference unified_orders, those among them in
\* which the void flag appears, and those in which it is asserted true
C19_OrderTexts == { t \in ValidatorTexts : Contains(StrLower(t), "unified_orders") }

C19_VoidFiltered == { t \in C19_OrderTexts : Contains(StrLower(t), "voided") }

C19_VoidedTrue ==
    { t \in C19_VoidFiltered :
        Contains(StrLower(t), "voided = true") \/ Contains(StrLower(t), "voided=true") }

C20_Deterministic ==
    [][(Validate /\ steps >= 1)
       => /\ agent_state'.sql_errors = agent_state.sql_errors
          /\ agent_state'.sql_warnings = agent_state.sql_warnings
          /\ agent_state'.sql_validation_passed = agent_state.sql_validation_passed]_vars

\* a failing text with two errors and a warning was validated twice, and
\* each validation changed retry_count
C20_ValidatedTwice ==
    /\ phase = "validator"
    /\ steps = 2
    /\ agent_state.generated_sql = NoConversionNoVoidSql
    /\ agent_state.sql_errors = << CentsMessage, VoidedMessage >>
    /\ Len(agent_state.sql_warnings) >= 1
    /\ agent_state.retry_count = 2
    /\ agent_state.max_retries = 2

C23_Identifiers ==
    Range(CENTS_COLUMNS) \cup Range(CENTS_TABLES) \cup Range(DOLLAR_VIEWS)

\* the texts of the answer to a failed validation hold no SQL text of the
\* catalog and no name of the schema
C23_Generic ==
    \A text \in {RephraseMessage} \cup Range(RephraseSuggestions) :
        /\ \A t \in SqlCatalog : Len(t) > 0 => ~Contains(text, t)
        /\ \A name \in C23_Identifiers : ~Contains(StrLower(text), name)

\* C23: when the session ends in Error because SQL validation failed, the
\* caller gets the same code, message, details and suggestions whatever the
\* generated SQL and the validation errors are, and they hold no SQL text and
\* no table or column name.
C23_GenericError ==
    (phase = "returned" /\ ~agent_state.needs_clarification
       /\ ~agent_state.sql_validation_passed)
    => /\ response = ErrorResponse("SQL_GENERATION_FAILED", RephraseMessage, { },
                                   RephraseSuggestions)
       /\ C23_Generic

\* a session whose SQL failed validation with errors that name columns and
\* tables was answered
C23_FailedValidationAnswered ==
    /\ phase = "returned"
    /\ response.kind = "error"
    /\ agent_state.generated_sql = NoConversionNoVoidSql
    /\ agent_state.sql_errors = << CentsMessage, VoidedMessage >>

\* C24: for "Compare delivery vs dine-in revenue" the rule classifier gives
\* ORDER_TYPE_ANALYSIS with a confidence of at least 0.75, the fast path is
\* taken (no round trip of the classifier), the fallback selects the
\* order-type view with use_views, and when the generator returns the GROUP BY
\* order_type query over that view the validator passes it and the session
\* ends Done with retry_count = 0.
C24_ScenarioA ==
    (phase \in {"graph", "respond", "execute", "returned"}
       /\ agent_state.user_query = CompareOrderTypesQuery
       /\ steps >= 1 /\ steps < RecursionLimit)
    => /\ agent_state.query_intent = "order_type_analysis"
       /\ agent_state.intent_confidence >= 75
       /\ ~agent_state.needs_clarification
       /\ agent_state.relevant_tables = << "mv_order_type_performance" >>
       /\ agent_state.use_views
       /\ agent_state.agent_trace[1] = "intent_and_schema"
       /\ (steps = 1) => (llm_calls = 0 /\ node = "generate_sql")
       /\ (steps = 3 /\ agent_state.generated_sql = GoodViewSql)
          => /\ agent_state.sql_validation_passed
             /\ agent_state.retry_count = 0
             /\ node = "validate_results"
       /\ (steps = 4 /\ agent_state.agent_trace[3] = "sql_validator"
             /\ agent_state.sql_validation_passed)
          => /\ agent_state.agent_trace[4] = "result_validator"
             /\ agent_state.retry_count = 0
             /\ node = END

\* the scenario ended Done
C24_ScenarioDone ==
    /\ agent_state.user_query = CompareOrderTypesQuery
    /\ node = END
    /\ steps = 4
    /\ agent_state.generated_sql = GoodViewSql
    /\ agent_state.sql_validation_passed
    /\ agent_state.retry_count = 0

\* C25: a freshly created session state has retry_count = 0,
\* max_retries = 2, needs_clarification = false, sql_validation_passed =
\* false and intent UNKNOWN.
C25_FreshState ==
    (phase = "graph" /\ steps = 0)
    => /\ agent_state.retry_count = 0
       /\ agent_state.max_retries = 2
       /\ ~agent_state.needs_clarification
       /\ ~agent_state.sql_validation_passed
       /\ agent_state.query_intent = UNKNOWN

\* C26: when the pipeline runs with dry_run, no transaction is committed at
\* any point of the ingestion (reference-data setup, each source) and no
\* materialized-view refresh runs; the ingestion ends with a rollback.
C26_DryRunCommitsNothing ==
    (phase = "etl" /\ etl.dry_run)
    => /\ etl.commits = << >>
       /\ ~etl.refreshed
       /\ (etl.pc = "done" /\ etl.result = "true") => etl.rollbacks = 1

\* C27: the ValidateSQL stage changes only the validation outcome and the
\* trace: it leaves the generated SQL, the schema selection, the time range
\* and both retry counters as they are.
C27_ValidateFrame ==
    [][ValidateSQL
       => /\ agent_state'.generated_sql = agent_state.generated_sql
          /\ agent_state'.relevant_tables = agent_state.relevant_tables
          /\ agent_state'.use_views = agent_state.use_views
          /\ agent_state'.time_range = agent_state.time_range
          /\ agent_state'.user_query = agent_state.user_query
          /\ agent_state'.query_intent = agent_state.query_intent
          /\ agent_state'.retry_count = agent_state.retry_count
          /\ agent_state'.result_retry_count = agent_state.result_retry_count]_vars

\* C28: whenever the SQL generator runs as a retry, after a failed
\* validation (the "no SQL generated" failure included) or after a failed
\* execution, its prompt holds the prior SQL text and every error of the
\* preceding failure: all validation errors and the execution error.
C28_RetryInput ==
    [][/\ (GenerateSQL /\ steps >= 2)
          => /\ gen_prompt'.retry
             /\ gen_prompt'.failed_sql = agent_state.generated_sql
             /\ Range(agent_state.sql_errors) \subseteq Range(gen_prompt'.errors)
       /\ Regenerate
          => /\ gen_prompt'.retry
             /\ gen_prompt'.failed_sql = handler_sql
             /\ ("SQL Execution Error: " \o retry_state.execution_error)
                    \in Range(gen_prompt'.errors)]_vars

\* C29: when the response of the reasoning service is not JSON, the
\* classifier does not raise: the session has intent UNKNOWN,
\* needs_clarification, a non-empty clarification question and the schema
\* selection of the heuristic fallback.
C29_ParseError ==
    [][(IntentAndSchema
          /\ ~FastPath(rule_based_intent_detection(agent_state.user_query))
          /\ agent_state' = intent_and_schema_agent(agent_state, [kind |-> "unparseable"]))
       => /\ agent_state'.query_intent = UNKNOWN
          /\ agent_state'.needs_clarification
          /\ agent_state'.clarification_question # ""
          /\ agent_state'.relevant_tables =
                FallbackConfig(UNKNOWN, agent_state.user_query.base_keyword,
                               agent_state.user_query.hour_keyword,
                               agent_state.user_query.payment_keyword).tables
          /\ agent_state'.use_views =
                FallbackConfig(UNKNOWN, agent_state.user_query.base_keyword,
                               agent_state.user_query.hour_keyword,
                               agent_state.user_query.payment_keyword).use_views
          /\ agent_state'.agent_trace = << "intent_and_schema" >>
          /\ node' = END]_vars

\* the classifier has run into the parse error
C29_ParseErrorTaken ==
    /\ steps = 1
    /\ llm_calls = 1
    /\ agent_state.clarification_question = ParseErrorQuestion
    /\ agent_state.relevant_tables = << "mv_daily_sales_summary" >>

\* C30: after the classifier, on every path, relevant_tables is non-empty,
\* and it is non-empty at every entry to the SQL generator.
C30_TablesNonEmpty ==
    /\ (phase = "graph" /\ steps >= 1) => Len(agent_state.relevant_tables) > 0
    /\ phase = "regenerate" => Len(retry_state.relevant_tables) > 0

\* the response held an empty table list and the generator is entered
C30_FallbackBeforeGenerator ==
    /\ phase = "graph"
    /\ node = "generate_sql"
    /\ llm_calls = 1
    /\ agent_state.intent_confidence = 90
    /\ agent_state.relevant_tables = << "mv_daily_sales_summary" >>

\* the scores of the query of a rule-based call, largest first
C31_Scores == intent_scores(agent_state.user_query)

C31_Max ==
    CHOOSE m \in {C31_Scores[i] : i \in 1..Len(PatternIntents)} :
        \A i \in 1..Len(PatternIntents) : C31_Scores[i] <= m

C31_Second ==
    LET top == CHOOSE i \in 1..Len(PatternIntents) : C31_Scores[i] = C31_Max
        rest == {C31_Scores[i] : i \in (1..Len(PatternIntents)) \ {top}}
    IN  CHOOSE m \in rest : \A x \in rest : x <= m

\* C31: the rule-based classifier returns None exactly when no intent scores
\* above 0; otherwise it returns an intent of maximal score, with confidence
\* min(0.95, 0.75 + 0.08 * (max - 2)) when max >= 2 and the runner-up scores
\* 0 or at most half of max, 0.75 when max = 1 and nothing else scored, 0.6
\* when the top score is tied; every confidence is within [0.6, 0.95]
C31_RuleBased ==
    (phase = "classify" /\ agent_state.called) =>
        LET result == agent_state.rule_result
        IN  /\ (result = << >>) <=> (C31_Max = 0)
            /\ result # << >> =>
                 /\ \E i \in 1..Len(PatternIntents) :
                        PatternIntents[i] = result[1] /\ C31_Scores[i] = C31_Max
                 /\ (C31_Max >= 2 /\ (C31_Second = 0 \/ C31_Max >= 2 * C31_Second))
                        => result[2] = Min(95, 75 + 8 * (C31_Max - 2))
                 /\ (C31_Max = 1 /\ C31_Second = 0) => result[2] = 75
                 /\ C31_Max = C31_Second => result[2] = 60
                 /\ result[2] >= 60 /\ result[2] <= 95

\* a call whose top score is high enough for the 0.95 cap to apply
C31_CapReached ==
    /\ phase = "classify"
    /\ agent_state.called
    /\ C31_Max = 5
    /\ C31_Second = 2
    /\ agent_state.rule_result[2] = 95

\* the precomputed aggregate views
C32_Views ==
    { "mv_daily_sales_summary", "mv_product_sales_summary", "mv_location_performance",
      "mv_hourly_sales_pattern", "mv_payment_methods_by_source",
      "mv_order_type_performance", "mv_category_sales_summary" }

\* C32: for every intent, when the query holds a row-level-detail keyword the
\* heuristic fallback selects base tables only and sets use_views to false;
\* without such a keyword the selection is the one of the intent, whatever
\* else the query says
C32_KeywordOverride ==
    (phase = "fallback" /\ steps = 1) =>
        /\ agent_state.user_query.base_keyword =>
              /\ ~agent_state.use_views
              /\ \A k \in 1..Len(agent_state.relevant_tables) :
                    agent_state.relevant_tables[k] \notin C32_Views
        /\ ~agent_state.user_query.base_keyword =>
              /\ agent_state.relevant_tables =
                    FallbackConfig(agent_state.query_intent, FALSE, FALSE, FALSE).tables
              /\ agent_state.use_views =
                    FallbackConfig(agent_state.query_intent, FALSE, FALSE, FALSE).use_views

\* the code the vocabulary of a kind assigns to a mention, or the uppercase
\* of a mention the vocabulary does not hold
C33_Code(mappings, mention) ==
    IF HasKey(mappings, StrLower(mention)) THEN Lookup(mappings, StrLower(mention))
    ELSE StrUpper(mention)

C33_Canonical ==
    [m \in Mentions |->
        [ locations     |-> C33_Code(entity_mappings.locations, m),
          categories    |-> C33_Code(entity_mappings.categories, m),
          order_types   |-> C33_Code(entity_mappings.order_types, m),
          payment_types |-> C33_Code(entity_mappings.payment_types, m),
          sources       |-> C33_Code(entity_mappings.sources, m) ]]

\* the payment types the fast path extracts from a query that is the mention
C33_FastPayment == [m \in Mentions |-> _extract_basic_entities_payment_types(m)]

\* C33: every location, category, order-type, payment-type and source value
\* stored in the entities is the code the vocabulary assigns to the mention,
\* or the uppercase of a mention the vocabulary does not hold; the fast-path
\* extractor gives the same code for the same mention
C33_Canonicalized ==
    (phase = "normalize" /\ steps = 1) =>
        \A k \in 1..Len(agent_state.entities.locations) :
            LET m == agent_state.entities.locations[k]
                stored == agent_state.entities_extracted
            IN  /\ stored.locations[k] = C33_Canonical[m].locations
                /\ stored.categories[k] = C33_Canonical[m].categories
                /\ stored.order_types[k] = C33_Canonical[m].order_types
                /\ stored.payment_types[k] = C33_Canonical[m].payment_types
                /\ stored.sources[k] = C33_Canonical[m].sources
                /\ C33_FastPayment[m] # << >>
                      => C33_FastPayment[m] = << stored.payment_types[k] >>

\* the validator texts whose SELECT list names a categorical column outside
\* any aggregate
C34_BareCategorical ==
    { GoodViewSql, "SELECT order_type, SUM(net_revenue) FROM mv_order_type_performance" }

\* the validator texts that use an aggregate function and have no GROUP BY
C34_UngroupedAggregate ==
    { t \in ValidatorTexts :
        /\ ContainsAny(StrLower(t), aggregates)
        /\ ~Contains(StrLower(t), "group by") }

\* C34: the context check reports the missing-GROUP-BY error exactly when
\* the SQL uses an aggregate function, has no GROUP BY, and its SELECT list
\* holds a non-aggregated categorical column; a SELECT list made only of
\* aggregate expressions with no GROUP BY does not get the error
C34_MissingGroupBy ==
    (phase = "validator" /\ steps >= 1 /\ agent_state.generated_sql # "") =>
        ((\E k \in 1..Len(agent_state.sql_errors) :
                agent_state.sql_errors[k] = GroupByMessage)
         <=> (/\ agent_state.generated_sql \in C34_UngroupedAggregate
              /\ agent_state.generated_sql \in C34_BareCategorical))

\* C35: with the shipped result validator results_valid is true after every
\* ValidateResults visit and the correction edge back to ValidateSQL is never
\* taken: ValidateResults is visited at most once, result_retry_count stays
\* 0, and a session that has passed ValidateSQL ends in Done (the graph ends
\* through ValidateResults, it is not cut off before it).
C35_PassThrough ==
    [][/\ ValidateResults => (agent_state'.results_valid /\ node' = END)
       /\ StageVisits(agent_state'.agent_trace, "result_validator") <= 1
       /\ agent_state'.result_retry_count = 0
       /\ (phase = "graph" /\ node = "validate_results") => ValidateResults]_vars

\* C36: every SQL text the handler passes to the execution engine, at the
\* first attempt and after a regeneration, is non-empty and is the
\* generated_sql of the session state on which the validator last passed
\* that very text; no SQL is executed for a session that needs clarification
C36_ExecutesValidated ==
    /\ phase = "execute" =>
          /\ handler_sql # ""
          /\ handler_sql = agent_state.generated_sql
          /\ agent_state.sql_validation_passed
          /\ agent_state.sql_errors = << >>
          /\ ValidationResult[handler_sql].errors = << >>
          /\ ContextResult[handler_sql, agent_state.relevant_tables,
                           agent_state.time_range, agent_state.use_views].errors = << >>
          /\ ~agent_state.needs_clarification
    /\ executions > 0 => ~agent_state.needs_clarification

\* a regenerated statement is about to be executed after the first one failed
C36_RegeneratedExecuted ==
    /\ phase = "execute"
    /\ Len(outcomes) = 1
    /\ execution_retry_count = 0
    /\ agent_state = retry_state
    /\ handler_sql = ConvertedSql

\* C37: VisualizationCache.get never raises; for a query_id whose metadata
\* is older than the TTL it returns None and removes the entry, also when
\* only a status was recorded for the id and no visualization was stored
C37_GetExpired ==
    [][\A query_id \in QueryIds :
          CacheGet(query_id) =>
              /\ viz'.last.raised = None
              /\ (/\ DictHas(viz._cache_metadata, query_id)
                  /\ viz.now - DictGet(viz._cache_metadata, query_id).created_at
                        > CACHE_TTL_SECONDS)
                 => /\ viz'.last.returned = << >>
                    /\ ~DictHas(viz'._cache_metadata, query_id)
                    /\ ~DictHas(viz'._viz_cache, query_id)]_vars

\* C38: on the streaming path, once the visualization status of a query is
\* set to pending it eventually becomes ready, error or not_applicable,
\* whatever the interleaving of the response stream, the background task and
\* a client that stops consuming the stream
C38_PendingResolves ==
    \A query_id \in QueryIds :
        (/\ DictHas(viz._cache_metadata, query_id)
         /\ get_status(viz, query_id) = "pending")
        ~> (get_status(viz, query_id) \in {"ready", "error", "not_applicable"})

\* C39: when connect fails, at the creation of the pool or at the connection
\* test after it, the pool is left uninitialised (None), so no later call
\* uses a pool that failed its test; and connect calls, concurrent ones
\* included, never create a pool while one is in place
C39_FailedConnect ==
    [][\A c \in Callers :
          /\ (db.callers[c].pc \in {"create_pool", "test"} /\ db'.callers[c].pc = "raised")
                => db'.pool = << >>
          /\ Acquire(c) => (db.pool # << >> /\ db.pool[1] \notin db.failed)
          /\ (CreatePool(c) /\ db'.created > db.created) => db.pool = << >>]_vars

====
